---------------------------- MODULE Spec2Model ----------------------------
(***************************************************************************)
(* Offline K-line store (OfflineData/offline_data_util.py) and the stock,  *)
(* bond and REIT updaters / downloaders built on it.                       *)
(*                                                                         *)
(* Dates are <<year, month, day>>; a date string "YYYY-MM-DD" is modelled  *)
(* by the same triple and compared field by field, which is what Python's  *)
(* comparison of zero-padded strings does.  Prices and volumes are small   *)
(* integers standing for floats.  Only day-level bars are modelled         *)
(* (hour = minute = 0).                                                    *)
(***************************************************************************)
EXTENDS Integers, Sequences, FiniteSets, TLC

\* ------------------------------------------------------------------ bounds
\* number of consecutive calendar days, from FirstDay on, a bar can be dated
NumDays == 2
\* longest list of bars a caller or a provider hands over, and longest series a
\* file holds in an initial state
MaxNew == 2

\* ------------------------------------------------------------------- dates
FirstDay == <<2024, 3, 9>>

IsLeap(y) == (y % 4 = 0 /\ y % 100 # 0) \/ y % 400 = 0

DaysInMonth(y, m) ==
    IF m = 2 THEN (IF IsLeap(y) THEN 29 ELSE 28)
    ELSE IF m \in {4, 6, 9, 11} THEN 30 ELSE 31

\* days before the first day of each month of a common year
DaysBeforeMonthCommon == <<0, 31, 59, 90, 120, 151, 181, 212, 243, 273, 304, 334>>

\* days before the first day of month m of year y
DaysBeforeMonth(y, m) ==
    DaysBeforeMonthCommon[m] + (IF m > 2 /\ IsLeap(y) THEN 1 ELSE 0)

\* date.toordinal(): the day count of a date, 0001-01-01 being day 1
ToOrdinal(dt) ==
    LET y == dt[1] - 1
    IN  365 * y + (y \div 4) - (y \div 100) + (y \div 400)
            + DaysBeforeMonth(dt[1], dt[2]) + dt[3]

\* date.fromordinal(): the date of day n, counted in 400-year cycles that start
\* on 1 March (day 1 of year 1 is day 306 of the cycle that starts in year 0)
FromOrdinal(n) ==
    LET z == n + 305
        era == z \div 146097
        doe == z - era * 146097
        yoe == (doe - (doe \div 1460) + (doe \div 36524) - (doe \div 146096)) \div 365
        doy == doe - (365 * yoe + (yoe \div 4) - (yoe \div 100))
        mp == (5 * doy + 2) \div 153
        d == doy - ((153 * mp + 2) \div 5) + 1
        m == IF mp < 10 THEN mp + 3 ELSE mp - 9
    IN  <<yoe + era * 400 + (IF m <= 2 THEN 1 ELSE 0), m, d>>

\* datetime + timedelta(days=n)
AddDays(dt, n) == FromOrdinal(ToOrdinal(dt) + n)

\* a > b on "YYYY-MM-DD" strings
DateStrGT(a, b) ==
    \/ a[1] > b[1]
    \/ a[1] = b[1] /\ a[2] > b[2]
    \/ a[1] = b[1] /\ a[2] = b[2] /\ a[3] > b[3]

BarDates == {AddDays(FirstDay, i) : i \in 0..(NumDays - 1)}

\* -------------------------------------------------------------- CTime, bars
\* Optional values: None is the empty sequence, a value x is <<x>>
None == <<>>
Some(x) == <<x>>

CTime(y, m, d, h, mi) == [year |-> y, month |-> m, day |-> d, hour |-> h, minute |-> mi]

\* the separator CTime.to_str puts between year, month and day
Seps == {"/", "-"}

\* CTime.to_str(): the date text of a day-level time, date and time-of-day otherwise
CTime_to_str(t, s) ==
    IF t.hour = 0 /\ t.minute = 0
    THEN [y |-> t.year, m |-> t.month, d |-> t.day, sep |-> s, hm |-> <<>>]
    ELSE [y |-> t.year, m |-> t.month, d |-> t.day, sep |-> s, hm |-> <<t.hour, t.minute>>]

\* len() of a time text: "YYYY-MM-DD" has 10 characters, "YYYY-MM-DD HH:MM" 16
TimeStrLen(ts) == IF ts.hm = <<>> THEN 10 ELSE 16

\* a < b on time texts written with one separator (zero-padded fields)
TimeStrLT(a, b) ==
    LET ka == <<a.y, a.m, a.d>> \o a.hm
        kb == <<b.y, b.m, b.d>> \o b.hm
    IN  \/ \E i \in 1..Len(ka) :
              /\ i <= Len(kb)
              /\ \A j \in 1..(i - 1) : ka[j] = kb[j]
              /\ ka[i] < kb[i]
        \/ /\ Len(ka) < Len(kb)
           /\ \A j \in 1..Len(ka) : ka[j] = kb[j]

\* the prices a provider can report for a day: the first day's bar comes in two
\* versions (a restated bar), the later days' in one
PricesOn(dt) == IF dt = FirstDay THEN {10, 11} ELSE {12}

\* CKLine_Unit built from an item dict
CKLine_Unit(t, o, h, l, c, v, to, tr) ==
    [time |-> t, open |-> o, high |-> h, low |-> l, close |-> c,
     volume |-> v, turnover |-> to, turnrate |-> tr]

MkBar(dt, p) == CKLine_Unit(CTime(dt[1], dt[2], dt[3], 0, 0), p, p, p, p, p - 10, 0, 0)

Bars == UNION {{MkBar(dt, p) : p \in PricesOn(dt)} : dt \in BarDates}

RECURSIVE SeqsUpTo(_, _)
SeqsUpTo(S, n) ==
    IF n = 0 THEN {<<>>}
    ELSE LET shorter == SeqsUpTo(S, n - 1)
         IN  shorter \cup {Append(s, x) : s \in {q \in shorter : Len(q) = n - 1}, x \in S}

\* ---------------------------------------------------------------- CSV text
\* str(x) of a float and of the int 0 that "x or 0" yields for a falsy x
PyStr(x) == <<"float", x>>
PyStrOr0(x) == IF x = 0 THEN <<"int", 0>> ELSE <<"float", x>>

\* Common.func_util.str2float
str2float(s) == s[2]

Header == <<"time", "open", "high", "low", "close", "volume", "turnover", "turnrate">>

\* a row whose volume and turnover columns are written in the wrong order
CsvRow_swapped(kl_unit, s) ==
    <<CTime_to_str(kl_unit.time, s), PyStr(kl_unit.open), PyStr(kl_unit.high),
      PyStr(kl_unit.low), PyStr(kl_unit.close), PyStrOr0(kl_unit.turnover),
      PyStrOr0(kl_unit.volume), PyStrOr0(kl_unit.turnrate)>>

\* one data row of save_kline_data_csv
CsvRow(kl_unit, s) ==
    <<CTime_to_str(kl_unit.time, s), PyStr(kl_unit.open), PyStr(kl_unit.high),
      PyStr(kl_unit.low), PyStr(kl_unit.close), PyStrOr0(kl_unit.volume),
      PyStrOr0(kl_unit.turnover), PyStrOr0(kl_unit.turnrate)>>

\* the time of a data row, as load_kline_data_csv parses it
ParseTime(time_str) ==
    IF TimeStrLen(time_str) = 10
    THEN CTime(time_str.y, time_str.m, time_str.d, 0, 0)
    ELSE CTime(time_str.y, time_str.m, time_str.d, time_str.hm[1], time_str.hm[2])

ParseRow(parts) ==
    CKLine_Unit(ParseTime(parts[1]), str2float(parts[2]), str2float(parts[3]),
                str2float(parts[4]), str2float(parts[5]), str2float(parts[6]),
                str2float(parts[7]), str2float(parts[8]))

\* ------------------------------------------------------------------- store
\* a path that holds no file; a file is the sequence of its lines
\* err: what the operating system answers to open() on the path: "none", or an
\* error on reading ("read": unreadable or undecodable) or on writing ("write")
NoFile == [exists |-> FALSE, lines |-> <<>>, err |-> "none"]
File(lines) == [exists |-> TRUE, lines |-> lines, err |-> "none"]

Codes == {"c1", "c2"}
KTypes == {"K_DAY", "K_WEEK"}
Autypes == {"NONE", "QFQ"}

\* <root>/<autype>/<k_type>/<code>.csv
create_data_file_path(code, k_type, autype) == <<autype, k_type, code>>

Paths == {create_data_file_path(c, k, a) : c \in Codes, k \in KTypes, a \in Autypes}

save_rows(kline_data, s) == [i \in 1..Len(kline_data) |-> CsvRow(kline_data[i], s)]

\* open(file_path, mode) / f.readlines() raises: neither save_kline_data_csv nor
\* load_kline_data_csv has a try around them
open_raises(f, code, k_type, autype, mode) ==
    LET file == f[create_data_file_path(code, k_type, autype)]
    IN  IF mode = "w" THEN file.err = "write" ELSE file.exists /\ file.err = "read"

\* save_kline_data_csv: header, then one row per bar in the given order
save_kline_data_csv(f, code, k_type, autype, kline_data, s) ==
    [f EXCEPT ![create_data_file_path(code, k_type, autype)] =
                  File(<<Header>> \o save_rows(kline_data, s))]

\* a time field that is not a date text: ten characters of which one is no digit
BadTimeText == [text |-> "2024-0x-09"]

\* the try block of a row raises: int() of a part of the time field is a ValueError
parse_raises(parts) == "text" \in DOMAIN parts[1]

RECURSIVE load_lines(_)
load_lines(lines) ==
    IF lines = <<>> THEN <<>>
    ELSE IF Len(Head(lines)) >= 8 /\ ~parse_raises(Head(lines))
         THEN <<ParseRow(Head(lines))>> \o load_lines(Tail(lines))
         ELSE load_lines(Tail(lines))

RECURSIVE load_warnings(_)
\* the number of logger.warning calls of the row loop: one per row of at least 8
\* fields whose try block raised
load_warnings(lines) ==
    IF lines = <<>> THEN 0
    ELSE (IF Len(Head(lines)) >= 8 /\ parse_raises(Head(lines)) THEN 1 ELSE 0)
         + load_warnings(Tail(lines))

\* the body of load_kline_data_csv on one file: [] when it is absent, else the
\* parsed rows after the header line
load_file(file) ==
    IF ~file.exists THEN <<>>
    ELSE IF file.lines = <<>> THEN <<>>
    ELSE load_lines(Tail(file.lines))

load_kline_data_csv(f, code, k_type, autype) ==
    load_file(f[create_data_file_path(code, k_type, autype)])

\* a latest-time lookup that answers with the time of the first stored bar
get_latest_data_time_first(f, code, k_type, autype) ==
    LET kline_data == load_kline_data_csv(f, code, k_type, autype)
    IN  IF kline_data # <<>> THEN Some(kline_data[1].time) ELSE None

\* get_latest_data_time (data_format = 'csv')
get_latest_data_time(f, code, k_type, autype) ==
    LET kline_data == load_kline_data_csv(f, code, k_type, autype)
    IN  IF kline_data # <<>> THEN Some(kline_data[Len(kline_data)].time) ELSE None

\* unique_data after the loop: per time key, the last bar of all_data with it
unique_data(all_data, s) ==
    LET keys == {CTime_to_str(all_data[i].time, s) : i \in 1..Len(all_data)}
        lastIdx(k) == CHOOSE i \in 1..Len(all_data) :
                         /\ CTime_to_str(all_data[i].time, s) = k
                         /\ \A j \in (i + 1)..Len(all_data) :
                               CTime_to_str(all_data[j].time, s) # k
    IN  [k \in keys |-> all_data[lastIdx(k)]]

RECURSIVE sorted_by_key(_, _, _)
\* sorted(unique_data.values(), key=time.to_str())
sorted_by_key(d, keys, s) ==
    IF keys = {} THEN <<>>
    ELSE LET k == CHOOSE x \in keys : \A z \in keys \ {x} : TimeStrLT(x, z)
         IN  <<d[k]>> \o sorted_by_key(d, keys \ {k}, s)

\* a merge in which the stored bar wins over the new bar of the same time
merge_first_wins(existing_data, new_data, s) ==
    LET d == unique_data(new_data \o existing_data, s)
    IN  sorted_by_key(d, DOMAIN d, s)

merge_kline_data(existing_data, new_data, s) ==
    LET d == unique_data(existing_data \o new_data, s)
    IN  sorted_by_key(d, DOMAIN d, s)

\* an append that writes the new bars after the stored ones as they come
append_plain(f, code, k_type, autype, new_data, s) ==
    save_kline_data_csv(f, code, k_type, autype,
                        load_kline_data_csv(f, code, k_type, autype) \o new_data, s)

\* append_kline_data (data_format = 'csv'): load, merge, de-duplicate, sort, save
append_kline_data(f, code, k_type, autype, new_data, s) ==
    LET existing_data == load_kline_data_csv(f, code, k_type, autype)
    IN  save_kline_data_csv(f, code, k_type, autype,
                            merge_kline_data(existing_data, new_data, s), s)

\* ------------------------------------------------------------ pickle files
\* <pickle root>/<autype>/<k_type>/<code>.pkl: absent, or the pickled list of bars
NoPickle == [exists |-> FALSE, data |-> <<>>]

\* save_kline_datapickle: pickle.dump(kline_data, f)
save_kline_datapickle(pk, code, k_type, autype, kline_data) ==
    [pk EXCEPT ![create_data_file_path(code, k_type, autype)] =
                   [exists |-> TRUE, data |-> kline_data]]

\* load_kline_data_pickle: [] when the file is absent, else the unpickled list
load_kline_data_pickle(pk, code, k_type, autype) ==
    LET file == pk[create_data_file_path(code, k_type, autype)]
    IN  IF ~file.exists THEN <<>> ELSE file.data

\* -------------------------------------------------- calls into the utility
\* the positional parameters (self excluded) of OfflineDataUtil's methods:
\* how many a call must give, and how many it may give
util_methods ==
    [create_data_file_path |-> [required |-> 3, total |-> 4],
     save_kline_data_csv   |-> [required |-> 4, total |-> 4],
     load_kline_data_csv   |-> [required |-> 3, total |-> 3],
     save_kline_datapickle |-> [required |-> 4, total |-> 4],
     load_kline_data_pickle |-> [required |-> 3, total |-> 3],
     get_latest_data_time  |-> [required |-> 3, total |-> 4],
     append_kline_data     |-> [required |-> 4, total |-> 5],
     get_downloaded_stocks |-> [required |-> 1, total |-> 2]]

\* self.util.<name> resolves (no AttributeError)
HasMethod(name) == name \in DOMAIN util_methods

\* a call self.util.<name>(nargs positional arguments) binds (no TypeError)
CallOK(name, nargs) ==
    /\ HasMethod(name)
    /\ util_methods[name].required <= nargs
    /\ nargs <= util_methods[name].total

\* delete(key) of the store: removes the file of the key, no error if absent
delete_kline_data(f, code, k_type, autype) ==
    [f EXCEPT ![create_data_file_path(code, k_type, autype)] = NoFile]

\* ------------------------------------------------------------- statistics
ZeroStats ==
    [success_count |-> 0, failed_count |-> 0, skipped_count |-> 0,
     updated_count |-> 0, new_records |-> 0, total_records |-> 0, failed |-> <<>>]

\* stats['skipped_count'] += 1
Skipped(st) == [st EXCEPT !.skipped_count = @ + 1]

\* stats['failed_count'] += 1; the failed list gets the task's name
Failed(st, name) == [st EXCEPT !.failed_count = @ + 1, !.failed = Append(@, name)]

\* an updater's counters after a completed write of n bars
Updated(st, n) ==
    [st EXCEPT !.updated_count = @ + 1, !.new_records = @ + n, !.success_count = @ + 1]

\* a downloader's counters after a completed save of n bars
Downloaded(st, n) == [st EXCEPT !.success_count = @ + 1, !.total_records = @ + n]

\* ------------------------------------------------------- provider answers
\* one provider call: it raises, or returns rows (none, or some bars)
Raise == [kind |-> "raise", rows |-> <<>>]
Rows(bars) == [kind |-> "rows", rows |-> bars]

\* date filter of a provider frame: the rows dated start_date or later
RECURSIVE RowsFrom(_, _)
RowsFrom(rows, start_date) ==
    IF rows = <<>> THEN <<>>
    ELSE LET t == Head(rows).time
         IN  IF DateStrGT(start_date, <<t.year, t.month, t.day>>)
             THEN RowsFrom(Tail(rows), start_date)
             ELSE <<Head(rows)>> \o RowsFrom(Tail(rows), start_date)

\* date filter of a provider frame: the rows dated end_date or earlier
RECURSIVE RowsUntil(_, _)
RowsUntil(rows, end_date) ==
    IF rows = <<>> THEN <<>>
    ELSE LET t == Head(rows).time
         IN  IF DateStrGT(<<t.year, t.month, t.day>>, end_date)
             THEN RowsUntil(Tail(rows), end_date)
             ELSE <<Head(rows)>> \o RowsUntil(Tail(rows), end_date)

\* ------------------------------------------------------------ the resolver
\* update_days of the three updaters
update_days_stock == 30
update_days_bond == 90
update_days_reit == 60

\* get_update_date_range answering "already current" for a key without data
resolve_range_sentinel(latest_time, update_days, today) ==
    IF latest_time # None
    THEN LET start_date == AddDays(<<latest_time[1].year, latest_time[1].month,
                                     latest_time[1].day>>, 1)
         IN  IF DateStrGT(start_date, today) THEN <<None, today>>
             ELSE <<Some(start_date), today>>
    ELSE <<None, today>>

\* get_update_date_range when the latest stored time could be read
resolve_range(latest_time, update_days, today) ==
    IF latest_time # None
    THEN LET latest_datetime == <<latest_time[1].year, latest_time[1].month, latest_time[1].day>>
             start_date == AddDays(latest_datetime, 1)
         IN  IF DateStrGT(start_date, today) THEN <<None, today>>
             ELSE <<Some(start_date), today>>
    ELSE <<Some(AddDays(today, 0 - update_days)), today>>

\* BaoStockUpdater.get_update_date_range(code, k_type): the call
\* get_latest_data_time(code, k_type) inside its try, and its except branch
BaoStockUpdater_get_update_date_range(f, code, k_type, today) ==
    IF CallOK("get_latest_data_time", 2) /\ ~open_raises(f, code, k_type, "QFQ", "r")
    THEN resolve_range(get_latest_data_time(f, code, k_type, "QFQ"), update_days_stock, today)
    ELSE <<Some(AddDays(today, 0 - update_days_stock)), today>>

\* AkshareBondUpdater.get_update_date_range(code, k_type, autype)
AkshareBondUpdater_get_update_date_range(f, code, k_type, autype, today) ==
    resolve_range(get_latest_data_time(f, code, k_type, autype), update_days_bond, today)

\* AkshareReitsUpdater.get_update_date_range(code, k_type, autype)
AkshareReitsUpdater_get_update_date_range(f, code, k_type, autype, today) ==
    resolve_range(get_latest_data_time(f, code, k_type, autype), update_days_reit, today)

\* ------------------------------------------------------------ update tasks
\* What one task did: the files, counters and session it leaves, the value it
\* returns, the provider fetches it made, the store writes it completed, the
\* range start it resolved (None: already current, or none resolved), and whether
\* its retry loop goes on to another pass.
Outcome(f, st, conn) ==
    [files |-> f, stats |-> st, conn |-> conn, ret |-> FALSE,
     fetches |-> 0, writes |-> 0, start |-> None, again |-> FALSE, io |-> "none"]

TaskName(code, k_type) == <<code, k_type>>

\* the except branch of a task: counted as failed, returns False
Except(o, name) == [o EXCEPT !.stats = Failed(@, name), !.ret = FALSE]

\* the store call of the task raised while reading ("read") or writing ("write")
Raised(o, kind) == [o EXCEPT !.io = kind]

\* the store write of an update task raised: control goes to the except branch
on_write_error(o, name) == Except(Raised(o, "write"), name)

\* skipped_count += 1; return True
ReturnSkipped(o) == [o EXCEPT !.stats = Skipped(@), !.ret = TRUE]

\* connect(): True when a session is open, else the outcome of bs.login()
connect(conn, login) == conn \/ login

\* BaoStockUpdater.update_single_stock
BaoStockUpdater_update_single_stock(f, st, conn, today, s, code, k_type, autype, force_full_update, login, resp) ==
    LET o0 == Outcome(f, st, conn)
        name == TaskName(code, k_type)
        rng == BaoStockUpdater_get_update_date_range(f, code, k_type, today)
        \* after the range: the files a delete left and the start date
        f1 == IF force_full_update THEN delete_kline_data(f, code, k_type, autype) ELSE f
        o1 == [o0 EXCEPT !.files = f1,
                         !.start = IF force_full_update
                                   THEN Some(AddDays(today, 0 - 365 * 5)) ELSE rng[1]]
        o2 == [o1 EXCEPT !.conn = connect(conn, login)]
        o3 == [o2 EXCEPT !.fetches = 1]
        new_data == resp.rows
    IN  IF force_full_update /\ ~CallOK("delete_kline_data", 2) THEN Except(o0, name)
        ELSE IF ~force_full_update /\ rng[1] = None THEN ReturnSkipped(o0)
        ELSE IF ~connect(conn, login) THEN [o2 EXCEPT !.ret = FALSE]
        ELSE IF resp.kind = "raise" THEN Except(o3, name)
        ELSE IF new_data = <<>> THEN ReturnSkipped(o3)
        ELSE IF force_full_update
        THEN IF CallOK("save_kline_data_csv", 3) /\ open_raises(f1, code, k_type, autype, "w")
             THEN on_write_error(o3, name)
             ELSE IF CallOK("save_kline_data_csv", 3)
             THEN [o3 EXCEPT !.files = save_kline_data_csv(f1, code, k_type, autype, new_data, s),
                             !.writes = 1, !.stats = Updated(@, Len(new_data)), !.ret = TRUE]
             ELSE Except(o3, name)
        ELSE IF CallOK("append_kline_data", 3) /\ open_raises(f1, code, k_type, autype, "r")
             THEN Except(Raised(o3, "read"), name)
             ELSE IF CallOK("append_kline_data", 3) /\ open_raises(f1, code, k_type, autype, "w")
             THEN on_write_error(o3, name)
             ELSE IF CallOK("append_kline_data", 3)
             THEN [o3 EXCEPT !.files = append_kline_data(f1, code, k_type, autype, new_data, s),
                             !.writes = 1, !.stats = Updated(@, Len(new_data)), !.ret = TRUE]
             ELSE Except(o3, name)

\* a task of the bond or REIT objects storing under the adjustment type it was
\* called with
storage_autype_as_requested(autype) == autype

\* storage_autype = AUTYPE.NONE in the bond and REIT tasks, whatever autype is
storage_autype_of(autype) == "NONE"

\* AkshareBondUpdater._fetch_df_by_candidates: the first candidate symbol (sh, then
\* sz) whose call returns rows; a call that raises or returns none is passed over
fetch_df_by_candidates(resp_sh, resp_sz) ==
    IF resp_sh.kind = "rows" /\ resp_sh.rows # <<>> THEN Some(resp_sh.rows)
    ELSE IF resp_sz.kind = "rows" /\ resp_sz.rows # <<>> THEN Some(resp_sz.rows)
    ELSE None

\* AkshareBondUpdater.update_single_bond
AkshareBondUpdater_update_single_bond(f, st, today, s, code, k_type, autype, force_full_update, resp_sh, resp_sz) ==
    LET o0 == Outcome(f, st, FALSE)
        name == code
        storage_autype == storage_autype_of(autype)
        rng == AkshareBondUpdater_get_update_date_range(f, code, k_type, storage_autype, today)
        f1 == IF force_full_update
              THEN delete_kline_data(f, code, k_type, storage_autype) ELSE f
        start_date == IF force_full_update THEN Some(<<2000, 1, 1>>) ELSE rng[1]
        o1 == [o0 EXCEPT !.files = f1, !.start = start_date, !.fetches = 1]
        data_df == fetch_df_by_candidates(resp_sh, resp_sz)
        new_data == RowsFrom(data_df[1], start_date[1])
    IN  IF k_type # "K_DAY" THEN ReturnSkipped(o0)
        ELSE IF force_full_update /\ ~CallOK("delete_kline_data", 3) THEN Except(o0, name)
        ELSE IF ~force_full_update /\ open_raises(f, code, k_type, storage_autype, "r")
        THEN Except(Raised(o0, "read"), name)
        ELSE IF ~force_full_update /\ rng[1] = None THEN ReturnSkipped(o0)
        ELSE IF data_df = None THEN Except(o1, name)
        ELSE IF new_data = <<>> THEN ReturnSkipped(o1)
        ELSE IF open_raises(f1, code, k_type, storage_autype, "w") THEN on_write_error(o1, name)
        ELSE IF force_full_update
        THEN [o1 EXCEPT !.files = save_kline_data_csv(f1, code, k_type, storage_autype,
                                                       new_data, s),
                        !.writes = 1, !.stats = Updated(@, Len(new_data)), !.ret = TRUE]
        ELSE [o1 EXCEPT !.files = append_kline_data(f1, code, k_type, storage_autype,
                                                     new_data, s),
                        !.writes = 1, !.stats = Updated(@, Len(new_data)), !.ret = TRUE]

\* the names bound where update_single_reit builds its incremental log message
reit_log_names == {"code", "k_type", "storage_autype", "new_data"}

\* AkshareReitsUpdater.update_single_reit
AkshareReitsUpdater_update_single_reit(f, st, today, s, code, k_type, autype, force_full_update, resp) ==
    LET o0 == Outcome(f, st, FALSE)
        name == TaskName(code, k_type)
        storage_autype == storage_autype_of(autype)
        rng == AkshareReitsUpdater_get_update_date_range(f, code, k_type, storage_autype, today)
        f1 == IF force_full_update
              THEN delete_kline_data(f, code, k_type, storage_autype) ELSE f
        start_date == IF force_full_update THEN Some(<<2020, 1, 1>>) ELSE rng[1]
        o1 == [o0 EXCEPT !.files = f1, !.start = start_date, !.fetches = 1]
        new_data == RowsFrom(resp.rows, start_date[1])
    IN  IF k_type # "K_DAY" THEN ReturnSkipped(o0)
        ELSE IF force_full_update /\ ~CallOK("delete_kline_data", 3) THEN Except(o0, name)
        ELSE IF ~force_full_update /\ open_raises(f, code, k_type, storage_autype, "r")
        THEN Except(Raised(o0, "read"), name)
        ELSE IF ~force_full_update /\ rng[1] = None THEN ReturnSkipped(o0)
        ELSE IF resp.kind = "raise" THEN Except(o1, name)
        ELSE IF resp.rows = <<>> THEN ReturnSkipped(o1)
        ELSE IF new_data = <<>> THEN ReturnSkipped(o1)
        ELSE IF open_raises(f1, code, k_type, storage_autype, "w") THEN on_write_error(o1, name)
        ELSE IF force_full_update
        THEN [o1 EXCEPT !.files = save_kline_data_csv(f1, code, k_type, storage_autype,
                                                       new_data, s),
                        !.writes = 1, !.stats = Updated(@, Len(new_data)), !.ret = TRUE]
        ELSE LET o2 == [o1 EXCEPT !.files = append_kline_data(f1, code, k_type, storage_autype,
                                                              new_data, s),
                                  !.writes = 1]
             IN  \* the log message names ktype, which is bound nowhere
                 IF "ktype" \in reit_log_names
                 THEN [o2 EXCEPT !.stats = Updated(@, Len(new_data)), !.ret = TRUE]
                 ELSE Except(o2, name)

\* ---------------------------------------------------------- download tasks
\* max_retries of download_single_stock / download_single_reit / download_single_bond
max_retries == 3

\* "if not force_update": the target CSV exists and is not empty
already_downloaded(f, code, k_type, autype) ==
    LET file == f[create_data_file_path(code, k_type, autype)]
    IN  file.exists /\ file.lines # <<>>

\* an except branch that gives up at the first failure
ExceptRetry_once(o, name, attempt) == Except(o, name)

\* the except branch of a download attempt: another attempt while attempts are
\* left, else counted as failed
ExceptRetry(o, name, attempt) ==
    IF attempt < max_retries - 1 THEN [o EXCEPT !.again = TRUE] ELSE Except(o, name)

\* BaoStockDownloader.download_single_stock, one pass of "for attempt in range(max_retries)"
BaoStockDownloader_attempt(f, st, conn, s, code, k_type, autype, attempt, login, resp) ==
    LET o0 == Outcome(f, st, conn)
        name == TaskName(code, k_type)
        o2 == [o0 EXCEPT !.conn = connect(conn, login)]
        o3 == [o2 EXCEPT !.fetches = 1]
        kline_data == resp.rows
    IN  IF ~connect(conn, login) THEN [o2 EXCEPT !.ret = FALSE]
        ELSE IF resp.kind = "raise" THEN ExceptRetry(o3, name, attempt)
        ELSE IF kline_data = <<>> THEN [o3 EXCEPT !.ret = FALSE]
        ELSE IF open_raises(f, code, k_type, autype, "w")
        THEN ExceptRetry(Raised(o3, "write"), name, attempt)
        ELSE [o3 EXCEPT !.files = save_kline_data_csv(f, code, k_type, autype, kline_data, s),
                        !.writes = 1, !.stats = Downloaded(@, Len(kline_data)), !.ret = TRUE]

\* AkshareReitsDownloader.download_single_reit, one pass of the retry loop
AkshareReitsDownloader_attempt(f, st, today, s, code, k_type, autype, attempt, resp) ==
    LET o0 == Outcome(f, st, FALSE)
        name == TaskName(code, k_type)
        storage_autype == storage_autype_of(autype)
        o1 == [o0 EXCEPT !.fetches = 1]
        data_df == RowsUntil(RowsFrom(resp.rows, <<2020, 1, 1>>), today)
    IN  IF resp.kind = "raise" THEN ExceptRetry(o1, name, attempt)
        ELSE IF resp.rows = <<>> THEN [o1 EXCEPT !.ret = TRUE]
        ELSE IF data_df = <<>> THEN [o1 EXCEPT !.ret = TRUE]
        ELSE IF open_raises(f, code, k_type, storage_autype, "w")
        THEN ExceptRetry(Raised(o1, "write"), name, attempt)
        ELSE [o1 EXCEPT !.files = save_kline_data_csv(f, code, k_type, storage_autype,
                                                       data_df, s),
                        !.writes = 1, !.stats = Downloaded(@, Len(data_df)), !.ret = TRUE]

\* fetch_bond_df of bond_download_offline: the first candidate with rows, else an
\* empty frame; a call that raises is passed over
fetch_bond_df(resp_sh, resp_sz) ==
    IF resp_sh.kind = "rows" /\ resp_sh.rows # <<>> THEN resp_sh.rows
    ELSE IF resp_sz.kind = "rows" /\ resp_sz.rows # <<>> THEN resp_sz.rows
    ELSE <<>>

\* AkshareBondDownloader.download_single_bond, one pass of the retry loop
AkshareBondDownloader_attempt(f, st, today, s, code, k_type, autype, attempt, resp_sh, resp_sz) ==
    LET o0 == Outcome(f, st, FALSE)
        storage_autype == storage_autype_of(autype)
        o1 == [o0 EXCEPT !.fetches = 1]
        df == fetch_bond_df(resp_sh, resp_sz)
        filtered == RowsUntil(RowsFrom(df, <<2000, 1, 1>>), today)
    IN  IF df = <<>> THEN [o1 EXCEPT !.ret = TRUE]
        ELSE IF filtered = <<>> THEN [o1 EXCEPT !.ret = TRUE]
        ELSE IF open_raises(f, code, k_type, storage_autype, "w")
        THEN ExceptRetry(Raised(o1, "write"), code, attempt)
        ELSE [o1 EXCEPT !.files = save_kline_data_csv(f, code, k_type, storage_autype,
                                                       filtered, s),
                        !.writes = 1, !.stats = Downloaded(@, Len(filtered)), !.ret = TRUE]

\* ------------------------------------------------------------------- state
VARIABLES
    sep,      \* separator of CTime.to_str in this build
    files,    \* path -> NoFile or the lines of the CSV file (header first)
    pickles,  \* path -> NoPickle or the bars of the pickle file of the key
    now,      \* datetime.now(), as a date
    last,     \* the last store operation: its name, path, argument, the file before, its result
    stats,    \* update_stats / download_stats of the object that runs the tasks
    is_connected,  \* the BaoStock session flag of the object
    task,     \* the task that runs or ran last
    batch     \* the batch call: its tasks, those still to run, and the finished ones

vars == <<sep, files, pickles, now, last, stats, is_connected, task, batch>>

\* no batch called yet
NoBatch ==
    [pc |-> "idle", obj |-> "none", autype |-> "NONE", force |-> FALSE,
     submitted |-> <<>>, queue |-> <<>>, results |-> <<>>]

\* no task started yet
IdleTask ==
    [obj |-> "none", code |-> "c1", k_type |-> "K_DAY", autype |-> "NONE", force |-> FALSE,
     pc |-> "idle", attempt |-> 0, fetches |-> 0, writes |-> 0, ret |-> FALSE,
     start |-> None, latest |-> None, resp |-> "none", rows |-> <<>>,
     pre |-> ZeroStats, changed |-> FALSE, io |-> <<>>, unreadable |-> FALSE]

StorePath == create_data_file_path("c1", "K_DAY", "QFQ")

FileOf(kline_data, s) == File(<<Header>> \o save_rows(kline_data, s))

NoOp == [op |-> "none", path |-> StorePath, arg |-> <<>>, pre |-> NoFile, ret |-> None,
         rep |-> FALSE, saved |-> None]

InitStore ==
    /\ sep \in Seps
    /\ pickles = [q \in Paths |-> NoPickle]
    /\ now = AddDays(FirstDay, NumDays - 1)
    /\ \E c \in {NoFile} \cup {FileOf(S, sep) : S \in SeqsUpTo(Bars, MaxNew)} :
          files = [p \in Paths |-> IF p = StorePath THEN c ELSE NoFile]
    /\ last = NoOp
    /\ stats = ZeroStats
    /\ is_connected = FALSE
    /\ task = IdleTask
    /\ batch = NoBatch

\* util.save_kline_data_csv(code, k_type, autype, kline_data)
Save(code, k_type, autype, kline_data) ==
    /\ files' = save_kline_data_csv(files, code, k_type, autype, kline_data, sep)
    /\ last' = [op |-> "save", path |-> create_data_file_path(code, k_type, autype),
                arg |-> kline_data,
                pre |-> files[create_data_file_path(code, k_type, autype)], ret |-> None,
                rep |-> FALSE, saved |-> None]
    /\ UNCHANGED <<sep, pickles, now, stats, is_connected, task, batch>>

\* util.load_kline_data_csv(code, k_type, autype)
Load(code, k_type, autype) ==
    /\ last' = [op |-> "load", path |-> create_data_file_path(code, k_type, autype),
                arg |-> <<>>,
                pre |-> files[create_data_file_path(code, k_type, autype)],
                ret |-> load_kline_data_csv(files, code, k_type, autype),
                rep |-> FALSE,
                \* the series a directly preceding save of this path was given
                saved |-> IF /\ last.op = "save"
                             /\ last.path = create_data_file_path(code, k_type, autype)
                          THEN Some(last.arg) ELSE None]
    /\ UNCHANGED <<sep, pickles, now, files, stats, is_connected, task, batch>>

\* util.get_latest_data_time(code, k_type, autype)
Latest(code, k_type, autype) ==
    /\ last' = [op |-> "latest", path |-> create_data_file_path(code, k_type, autype),
                arg |-> <<>>,
                pre |-> files[create_data_file_path(code, k_type, autype)],
                ret |-> get_latest_data_time(files, code, k_type, autype),
                rep |-> FALSE, saved |-> None]
    /\ UNCHANGED <<sep, pickles, now, files, stats, is_connected, task, batch>>

\* util.append_kline_data(code, k_type, autype, new_data)
AppendMerge(code, k_type, autype, new_data) ==
    /\ files' = append_kline_data(files, code, k_type, autype, new_data, sep)
    /\ last' = [op |-> "append", path |-> create_data_file_path(code, k_type, autype),
                arg |-> new_data,
                pre |-> files[create_data_file_path(code, k_type, autype)], ret |-> None,
                \* this call repeats the directly preceding append_kline_data call
                rep |-> /\ last.op = "append"
                        /\ last.path = create_data_file_path(code, k_type, autype)
                        /\ last.arg = new_data,
                saved |-> None]
    /\ UNCHANGED <<sep, pickles, now, stats, is_connected, task, batch>>

NextStore ==
    \/ \E S \in SeqsUpTo(Bars, MaxNew) : Save("c1", "K_DAY", "QFQ", S)
    \/ Load("c1", "K_DAY", "QFQ")
    \/ Latest("c1", "K_DAY", "QFQ")
    \/ \E N \in SeqsUpTo(Bars, MaxNew) : AppendMerge("c1", "K_DAY", "QFQ", N)

SpecStore == InitStore /\ [][NextStore]_vars

\* ---------------------------------------------------------- single tasks
\* longest series a file holds when a task starts
MaxStored == 1
\* longest list of rows one provider call returns
MaxResp == 1

Updaters == {"BaoStockUpdater", "AkshareBondUpdater", "AkshareReitsUpdater"}
Downloaders == {"BaoStockDownloader", "AkshareBondDownloader", "AkshareReitsDownloader"}

\* the answers of one provider call
Resps == {Raise} \cup {Rows(b) : b \in SeqsUpTo(Bars, MaxResp)}

\* the answers the provider gives to the tasks of a batch
BatchResps == {Raise, Rows(<<>>), Rows(<<MkBar(FirstDay, 10)>>)}

\* the answers of the two candidate symbols (sh, sz) of one bond fetch
RespPairs ==
    {<<r, Raise>> : r \in Resps} \cup {<<q, r>> : r \in Resps, q \in {Raise, Rows(<<>>)}}

\* what a provider call answered: "raise", "empty" (no row, no error) or "rows"
RespKind(resp) ==
    IF resp.kind = "raise" THEN "raise" ELSE IF resp.rows = <<>> THEN "empty" ELSE "rows"

\* what the two candidate calls of a bond fetch answered together
PairKind(resp_sh, resp_sz) ==
    IF fetch_df_by_candidates(resp_sh, resp_sz) # None THEN "rows"
    ELSE IF resp_sh.kind = "raise" \/ resp_sz.kind = "raise" THEN "raise"
    ELSE "empty"

\* the path a task of the object stores to
StoragePath(obj, code, k_type, autype) ==
    IF obj \in {"BaoStockUpdater", "BaoStockDownloader"}
    THEN create_data_file_path(code, k_type, autype)
    ELSE create_data_file_path(code, k_type, storage_autype_of(autype))

\* a task of the object starts on (code, k_type, autype, force)
StartedTask(obj, code, k_type, autype, force) ==
    [IdleTask EXCEPT !.obj = obj, !.code = code, !.k_type = k_type, !.autype = autype,
                     !.force = force, !.pre = stats,
                     !.unreadable = LET p == StoragePath(obj, code, k_type, autype)
                                    IN  open_raises(files, p[3], p[2], p[1], "r"),
                     !.latest = LET p == StoragePath(obj, code, k_type, autype)
                                IN  get_latest_data_time(files, p[3], p[2], p[1])]

\* the task record after a pass that ended as o, the provider having answered kind/rows
AfterPass(t, o, kind, rows) ==
    [t EXCEPT !.pc = IF o.again THEN "loop" ELSE "done",
              !.attempt = @ + 1,
              !.fetches = @ + o.fetches,
              !.writes = @ + o.writes,
              !.ret = o.ret,
              !.start = o.start,
              !.resp = IF o.fetches = 0 THEN "none" ELSE kind,
              !.changed = @ \/ o.files # files,
              !.io = Append(@, o.io),
              !.rows = rows]

Apply(o) ==
    /\ files' = o.files
    /\ stats' = o.stats
    /\ is_connected' = o.conn

Init ==
    /\ sep \in Seps
    /\ pickles = [q \in Paths |-> NoPickle]
    /\ now \in BarDates
    /\ is_connected \in BOOLEAN
    /\ \E p \in {create_data_file_path("c1", "K_DAY", a) : a \in Autypes} :
       \E c \in {NoFile} \cup {FileOf(S, sep) : S \in SeqsUpTo(Bars, MaxStored)} :
          files = [q \in Paths |-> IF q = p THEN c ELSE NoFile]
    /\ stats = ZeroStats
    /\ task = IdleTask
    /\ last = NoOp
    /\ batch = NoBatch

UpdateSingleStock(code, k_type, autype, force, login, resp) ==
    /\ task.pc = "idle"
    /\ LET o == BaoStockUpdater_update_single_stock(files, stats, is_connected, now, sep,
                    code, k_type, autype, force, login, resp)
       IN  /\ Apply(o)
           /\ task' = AfterPass(StartedTask("BaoStockUpdater", code, k_type, autype, force),
                                o, RespKind(resp), resp.rows)
    /\ UNCHANGED <<sep, pickles, now, last, batch>>

UpdateSingleBond(code, k_type, autype, force, resp_sh, resp_sz) ==
    /\ task.pc = "idle"
    /\ LET o == AkshareBondUpdater_update_single_bond(files, stats, now, sep,
                    code, k_type, autype, force, resp_sh, resp_sz)
       IN  /\ Apply([o EXCEPT !.conn = is_connected])
           /\ task' = AfterPass(StartedTask("AkshareBondUpdater", code, k_type, autype, force),
                                o, PairKind(resp_sh, resp_sz),
                                fetch_bond_df(resp_sh, resp_sz))
    /\ UNCHANGED <<sep, pickles, now, last, batch>>

UpdateSingleReit(code, k_type, autype, force, resp) ==
    /\ task.pc = "idle"
    /\ LET o == AkshareReitsUpdater_update_single_reit(files, stats, now, sep,
                    code, k_type, autype, force, resp)
       IN  /\ Apply([o EXCEPT !.conn = is_connected])
           /\ task' = AfterPass(StartedTask("AkshareReitsUpdater", code, k_type, autype, force),
                                o, RespKind(resp), resp.rows)
    /\ UNCHANGED <<sep, pickles, now, last, batch>>

\* download_single_stock / download_single_reit / download_single_bond up to the
\* retry loop: the k_type check of the REIT and bond downloaders, and the skip of a
\* target that is already downloaded
BeginDownload(obj, code, k_type, autype, force) ==
    LET t == StartedTask(obj, code, k_type, autype, force)
        p == StoragePath(obj, code, k_type, autype)
    IN  IF obj # "BaoStockDownloader" /\ k_type # "K_DAY"
        THEN /\ task' = [t EXCEPT !.pc = "done", !.ret = TRUE]
             /\ UNCHANGED stats
        ELSE IF ~force /\ already_downloaded(files, p[3], p[2], p[1])
        THEN /\ task' = [t EXCEPT !.pc = "done", !.ret = TRUE]
             /\ stats' = Skipped(stats)
        ELSE /\ task' = [t EXCEPT !.pc = "loop"]
             /\ UNCHANGED stats

DownloadSingleBegin(obj, code, k_type, autype, force) ==
    /\ task.pc = "idle"
    /\ BeginDownload(obj, code, k_type, autype, force)
    /\ UNCHANGED <<sep, pickles, now, last, files, is_connected, batch>>

DownloadStockAttempt(login, resp) ==
    /\ task.pc = "loop" /\ task.obj = "BaoStockDownloader"
    /\ LET o == BaoStockDownloader_attempt(files, stats, is_connected, sep, task.code,
                    task.k_type, task.autype, task.attempt, login, resp)
       IN  /\ Apply(o)
           /\ task' = AfterPass(task, o, RespKind(resp), resp.rows)
    /\ UNCHANGED <<sep, pickles, now, last, batch>>

DownloadReitAttempt(resp) ==
    /\ task.pc = "loop" /\ task.obj = "AkshareReitsDownloader"
    /\ LET o == AkshareReitsDownloader_attempt(files, stats, now, sep, task.code,
                    task.k_type, task.autype, task.attempt, resp)
       IN  /\ Apply([o EXCEPT !.conn = is_connected])
           /\ task' = AfterPass(task, o, RespKind(resp), resp.rows)
    /\ UNCHANGED <<sep, pickles, now, last, batch>>

DownloadBondAttempt(resp_sh, resp_sz) ==
    /\ task.pc = "loop" /\ task.obj = "AkshareBondDownloader"
    /\ LET o == AkshareBondDownloader_attempt(files, stats, now, sep, task.code,
                    task.k_type, task.autype, task.attempt, resp_sh, resp_sz)
       IN  /\ Apply([o EXCEPT !.conn = is_connected])
           /\ task' = AfterPass(task, o, PairKind(resp_sh, resp_sz),
                                fetch_bond_df(resp_sh, resp_sz))
    /\ UNCHANGED <<sep, pickles, now, last, batch>>

Next ==
    \/ \E k \in KTypes, a \in Autypes, force \in BOOLEAN, login \in BOOLEAN, resp \in Resps :
          UpdateSingleStock("c1", k, a, force, login, resp)
    \/ \E k \in KTypes, a \in Autypes, force \in BOOLEAN, rr \in RespPairs :
          UpdateSingleBond("c1", k, a, force, rr[1], rr[2])
    \/ \E k \in KTypes, a \in Autypes, force \in BOOLEAN, resp \in Resps :
          UpdateSingleReit("c1", k, a, force, resp)
    \/ \E obj \in Downloaders, k \in KTypes, a \in Autypes, force \in BOOLEAN :
          DownloadSingleBegin(obj, "c1", k, a, force)
    \/ \E login \in BOOLEAN, resp \in Resps : DownloadStockAttempt(login, resp)
    \/ \E resp \in Resps : DownloadReitAttempt(resp)
    \/ \E rr \in RespPairs : DownloadBondAttempt(rr[1], rr[2])

Spec == Init /\ [][Next]_vars

\* ------------------------------------------------- tasks on a faulty store
\* The same tasks over a data directory in which the file of the key may be
\* unreadable or unwritable; between the passes of a retry loop (retry_delay) the
\* condition may change.
IOErrs == {"none", "read", "write"}

InitIO ==
    /\ sep \in Seps
    /\ pickles = [q \in Paths |-> NoPickle]
    /\ now \in BarDates
    /\ is_connected = FALSE
    /\ \E p \in {create_data_file_path("c1", "K_DAY", a) : a \in Autypes}, e \in IOErrs :
       \E c \in {NoFile, FileOf(<<MkBar(FirstDay, 10)>>, sep)} :
          files = [q \in Paths |-> IF q = p THEN [c EXCEPT !.err = e] ELSE NoFile]
    /\ stats = ZeroStats
    /\ task = IdleTask
    /\ last = NoOp
    /\ batch = NoBatch

\* the condition of the file of the running task changes while the task sleeps
\* before its next pass
DiskFault(e) ==
    /\ task.pc = "loop" /\ task.attempt > 0
    /\ LET p == StoragePath(task.obj, task.code, task.k_type, task.autype)
       IN  /\ files[p].err # e
           /\ files' = [files EXCEPT ![p].err = e]
    /\ UNCHANGED <<sep, pickles, now, last, stats, is_connected, task, batch>>

NextIO ==
    \/ \E a \in Autypes, force \in BOOLEAN, login \in BOOLEAN, resp \in BatchResps :
          UpdateSingleStock("c1", "K_DAY", a, force, login, resp)
    \/ \E a \in Autypes, force \in BOOLEAN, r1 \in BatchResps, r2 \in BatchResps :
          UpdateSingleBond("c1", "K_DAY", a, force, r1, r2)
    \/ \E a \in Autypes, force \in BOOLEAN, resp \in BatchResps :
          UpdateSingleReit("c1", "K_DAY", a, force, resp)
    \/ \E obj \in Downloaders, a \in Autypes, force \in BOOLEAN :
          DownloadSingleBegin(obj, "c1", "K_DAY", a, force)
    \/ \E login \in BOOLEAN, resp \in BatchResps : DownloadStockAttempt(login, resp)
    \/ \E resp \in BatchResps : DownloadReitAttempt(resp)
    \/ \E r1 \in BatchResps, r2 \in BatchResps : DownloadBondAttempt(r1, r2)
    \/ \E e \in {"none", "write"} : DiskFault(e)

SpecIO == InitIO /\ [][NextIO]_vars

\* ------------------------------------------------- the pickle mirror
\* CStockFileReader.get_kl_data with no begin_date and end_date: the bars of
\* util.load_kline_data_pickle(code, k_type), or those of
\* util.load_kline_data_csv(code, k_type) when that list is empty; None when a call
\* raises
CStockFileReader_get_kl_data(pk, f, code, k_type, autype) ==
    IF ~CallOK("load_kline_data_pickle", 2) THEN None
    ELSE LET kline_data == load_kline_data_pickle(pk, code, k_type, autype)
         IN  IF kline_data # <<>> THEN Some(kline_data)
             ELSE IF ~CallOK("load_kline_data_csv", 2) THEN None
             ELSE Some(load_kline_data_csv(f, code, k_type, autype))

InitMirror ==
    /\ sep \in Seps
    /\ pickles = [q \in Paths |-> NoPickle]
    /\ now \in BarDates
    /\ is_connected = FALSE
    /\ \E p \in {create_data_file_path("c1", "K_DAY", a) : a \in Autypes} :
       \E c \in {NoFile, FileOf(<<MkBar(FirstDay, 10)>>, sep)} :
          files = [q \in Paths |-> IF q = p THEN c ELSE NoFile]
    /\ stats = ZeroStats
    /\ task = IdleTask
    /\ last = NoOp
    /\ batch = NoBatch

\* the mirror of a key is made: the series of its CSV file is saved as pickle
MirrorSave(code, k_type, autype) ==
    /\ task.pc = "idle"
    /\ files[create_data_file_path(code, k_type, autype)].exists
    /\ ~pickles[create_data_file_path(code, k_type, autype)].exists
    /\ pickles' = save_kline_datapickle(pickles, code, k_type, autype,
                                        load_kline_data_csv(files, code, k_type, autype))
    /\ UNCHANGED <<sep, files, now, last, stats, is_connected, task, batch>>

\* the offline reader is asked for the bars of a key
ReaderGet(code, k_type, autype) ==
    /\ task.pc \in {"idle", "done"}
    /\ last' = [NoOp EXCEPT !.op = "get_kl_data",
                            !.path = create_data_file_path(code, k_type, autype),
                            !.pre = files[create_data_file_path(code, k_type, autype)],
                            !.ret = CStockFileReader_get_kl_data(pickles, files, code,
                                                                 k_type, autype)]
    /\ UNCHANGED <<sep, files, pickles, now, stats, is_connected, task, batch>>

\* the two places that save a pickle: test_data_loading calls
\* util.save_kline_data_pickle(code, k_type, csv_data) and then
\* util.load_kline_data_pickle(code, k_type); append_kline_data(..., 'pickle') calls
\* self.save_kline_data_pickle(code, k_type, autype, sorted_data), and its caller
\* then loads with load_kline_data_pickle(code, k_type, autype)
PickleCallers ==
    [test_data_loading |-> [save_args |-> 3, load_args |-> 2],
     append_kline_data |-> [save_args |-> 4, load_args |-> 3]]

\* the call <util>.save_kline_data_pickle(...) as the callers write it: the pickle
\* files after it, or None when the attribute lookup or the binding raises
call_save_kline_data_pickle(pk, code, k_type, autype, kline_data, nargs) ==
    IF CallOK("save_kline_data_pickle", nargs)
    THEN Some(save_kline_datapickle(pk, code, k_type, autype, kline_data))
    ELSE None

\* the series of the CSV file of a key is saved as pickle through the name the
\* callers use and loaded back; ret is None when a call raised
PickleRoundTrip(code, k_type, autype, caller) ==
    LET S == load_kline_data_csv(files, code, k_type, autype)
        saved == call_save_kline_data_pickle(pickles, code, k_type, autype, S,
                                             PickleCallers[caller].save_args)
        pk == IF saved = None THEN pickles ELSE saved[1]
    IN  /\ task.pc \in {"idle", "done"}
        /\ S # <<>>
        /\ pickles' = pk
        /\ last' = [NoOp EXCEPT
                      !.op = "pickle_round_trip",
                      !.path = create_data_file_path(code, k_type, autype),
                      !.arg = S,
                      !.pre = files[create_data_file_path(code, k_type, autype)],
                      !.ret = IF saved = None THEN None
                              ELSE IF ~CallOK("load_kline_data_pickle",
                                              PickleCallers[caller].load_args)
                                   THEN None
                              ELSE Some(load_kline_data_pickle(pk, code, k_type, autype))]
        /\ UNCHANGED <<sep, files, now, stats, is_connected, task, batch>>

NextMirror ==
    \/ \E a \in Autypes : MirrorSave("c1", "K_DAY", a)
    \/ \E a \in Autypes, caller \in DOMAIN PickleCallers :
          PickleRoundTrip("c1", "K_DAY", a, caller)
    \/ \E a \in Autypes : ReaderGet("c1", "K_DAY", a)
    \/ \E a \in Autypes, force \in BOOLEAN, login \in BOOLEAN, resp \in Resps :
          UpdateSingleStock("c1", "K_DAY", a, force, login, resp)
    \/ \E a \in Autypes, force \in BOOLEAN, rr \in RespPairs :
          UpdateSingleBond("c1", "K_DAY", a, force, rr[1], rr[2])
    \/ \E a \in Autypes, force \in BOOLEAN, resp \in Resps :
          UpdateSingleReit("c1", "K_DAY", a, force, resp)
    \/ \E obj \in Downloaders, a \in Autypes, force \in BOOLEAN :
          DownloadSingleBegin(obj, "c1", "K_DAY", a, force)
    \/ \E login \in BOOLEAN, resp \in Resps : DownloadStockAttempt(login, resp)
    \/ \E resp \in Resps : DownloadReitAttempt(resp)
    \/ \E rr \in RespPairs : DownloadBondAttempt(rr[1], rr[2])

SpecMirror == InitMirror /\ [][NextMirror]_vars

\* ------------------------------------------------------------------ batches
\* update_stock_list / update_bonds_list / update_reits_list and the download lists
\* with the default max_workers = 1: the executor runs the submitted tasks one
\* after the other, in submission order. Codes stand for prefixed codes, which
\* _normalize_stock_code returns as they are.

\* tasks = [(code, k_type, ...) for code in codes for k_type in k_types]
RECURSIVE TasksOf(_, _)
TasksOf(codes, k_types) ==
    IF codes = <<>> THEN <<>>
    ELSE [i \in 1..Len(k_types) |-> <<Head(codes), k_types[i]>>] \o TasksOf(Tail(codes), k_types)

\* the tasks the executor still has to run once a task has returned ret: the loop
\* over as_completed goes on whatever a task returned
queue_after_abort(queue, ret) == IF ret THEN Tail(queue) ELSE <<>>

queue_after(queue, ret) == Tail(queue)

\* the counter a task added to
Counted(pre, post) ==
    IF post.failed_count > pre.failed_count THEN "failed"
    ELSE IF post.success_count > pre.success_count THEN "success"
    ELSE IF post.skipped_count > pre.skipped_count THEN "skipped"
    ELSE "none"

\* what the batch notes of a finished task t: its key, what it returned, whether it
\* wrote, how often it called the provider for data, the file of its key when it
\* ended, and the counter it added to
ResultOf(t, f, st) ==
    [code |-> t.code, k_type |-> t.k_type, ret |-> t.ret, writes |-> t.writes,
     fetches |-> t.fetches,
     file |-> f[StoragePath(t.obj, t.code, t.k_type, t.autype)],
     counted |-> Counted(t.pre, st)]

\* one update task of the object
update_single(obj, f, st, conn, today, s, code, k_type, autype, force, login, r1, r2) ==
    IF obj = "BaoStockUpdater"
    THEN BaoStockUpdater_update_single_stock(f, st, conn, today, s, code, k_type, autype,
                                             force, login, r1)
    ELSE IF obj = "AkshareBondUpdater"
    THEN [AkshareBondUpdater_update_single_bond(f, st, today, s, code, k_type, autype,
                                                force, r1, r2) EXCEPT !.conn = conn]
    ELSE [AkshareReitsUpdater_update_single_reit(f, st, today, s, code, k_type, autype,
                                                 force, r1) EXCEPT !.conn = conn]

\* one pass of the retry loop of a download task of the object
download_attempt(obj, f, st, conn, today, s, code, k_type, autype, attempt, login, r1, r2) ==
    IF obj = "BaoStockDownloader"
    THEN BaoStockDownloader_attempt(f, st, conn, s, code, k_type, autype, attempt, login, r1)
    ELSE IF obj = "AkshareBondDownloader"
    THEN [AkshareBondDownloader_attempt(f, st, today, s, code, k_type, autype, attempt, r1, r2)
             EXCEPT !.conn = conn]
    ELSE [AkshareReitsDownloader_attempt(f, st, today, s, code, k_type, autype, attempt, r1)
             EXCEPT !.conn = conn]

\* what the provider answered to a task of the object
KindOf(obj, r1, r2) ==
    IF obj \in {"AkshareBondUpdater", "AkshareBondDownloader"}
    THEN PairKind(r1, r2) ELSE RespKind(r1)

RowsOf(obj, r1, r2) ==
    IF obj \in {"AkshareBondUpdater", "AkshareBondDownloader"}
    THEN fetch_bond_df(r1, r2) ELSE r1.rows

InitBatch ==
    /\ sep \in Seps
    /\ pickles = [q \in Paths |-> NoPickle]
    /\ now \in BarDates
    /\ is_connected \in BOOLEAN
    /\ \E c \in {NoFile, FileOf(<<MkBar(FirstDay, 10)>>, sep)} :
          files = [q \in Paths |-> IF q[3] = "c1" /\ q[2] = "K_DAY" THEN c ELSE NoFile]
    /\ stats \in {ZeroStats, Skipped(ZeroStats)}
    /\ task = IdleTask
    /\ last = NoOp
    /\ batch = NoBatch

\* the head of a *_list call: an empty list returns the statistics as they are;
\* else the statistics are reset and the tasks submitted
StartList(obj, codes, k_types, autype, force) ==
    IF codes = <<>>
    THEN /\ batch' = [batch EXCEPT !.pc = "returned", !.obj = obj]
         /\ UNCHANGED stats
    ELSE /\ batch' = [batch EXCEPT !.pc = "running", !.obj = obj, !.autype = autype,
                                   !.force = force,
                                   !.submitted = TasksOf(codes, k_types),
                                   !.queue = TasksOf(codes, k_types)]
         /\ stats' = ZeroStats

BatchStart(obj, codes, k_types, autype, force) ==
    /\ batch.pc = "idle"
    /\ StartList(obj, codes, k_types, autype, force)
    /\ UNCHANGED <<sep, pickles, now, last, files, is_connected, task>>

\* the codes in sorted order
SortedCodes == <<"c1", "c2">>

\* the subsequence of the sorted codes that lie in the set cs
RECURSIVE SortedFrom(_, _)
SortedFrom(seq, cs) ==
    IF seq = <<>> THEN <<>>
    ELSE (IF Head(seq) \in cs THEN <<Head(seq)>> ELSE <<>>) \o SortedFrom(Tail(seq), cs)

\* OfflineDataUtil.get_downloaded_stocks(autype, stock_type): the codes of the class
\* stock_type with a CSV in some period directory under autype, sorted. kind is
\* the class the file names of the data directory fall in: "stock" (with a '.'),
\* "bond" (six digits starting with 01) or "reits" (other six digits)
get_downloaded_stocks(f, autype, stock_type, kind) ==
    IF stock_type # kind THEN <<>>
    ELSE SortedFrom(SortedCodes,
                    {c \in Codes : \E k \in KTypes : f[create_data_file_path(c, k, autype)].exists})

CodeKinds == {"stock", "bond", "reits"}

\* update_all_downloaded_stocks / update_all_downloaded_bonds /
\* update_all_downloaded_reits: the code list is read from the data directory and
\* handed to the *_list call; an exception of the listing reaches the caller.
\* (The default k_types of the stock updater, without K_MON.)
BatchAllDownloaded(obj, kind, force) ==
    /\ batch.pc = "idle"
    /\ obj \in Updaters
    /\ IF obj = "BaoStockUpdater"
       THEN IF ~CallOK("get_downloaded_stocks", 0)
            THEN /\ batch' = [batch EXCEPT !.pc = "raised", !.obj = obj]
                 /\ UNCHANGED stats
            ELSE StartList(obj, get_downloaded_stocks(files, "QFQ", "stock", kind),
                           <<"K_DAY", "K_WEEK">>, "QFQ", force)
       ELSE StartList(obj, get_downloaded_stocks(files, "NONE", "reits", kind),
                      <<"K_DAY">>, "NONE", force)
    /\ UNCHANGED <<sep, pickles, now, last, files, is_connected, task>>

\* the executor runs the next update task
BatchUpdateTask(login, r1, r2) ==
    /\ batch.pc = "running" /\ batch.obj \in Updaters /\ batch.queue # <<>>
    /\ LET code == Head(batch.queue)[1]
           k_type == Head(batch.queue)[2]
           o == update_single(batch.obj, files, stats, is_connected, now, sep, code, k_type,
                              batch.autype, batch.force, login, r1, r2)
       IN  /\ Apply(o)
           /\ task' = AfterPass(StartedTask(batch.obj, code, k_type, batch.autype, batch.force),
                                o, KindOf(batch.obj, r1, r2), RowsOf(batch.obj, r1, r2))
           /\ batch' = [batch EXCEPT !.queue = queue_after(@, o.ret),
                                     !.results = Append(@, ResultOf(task', files', stats'))]
    /\ UNCHANGED <<sep, pickles, now, last>>

\* the executor starts the next download task
BatchDownloadBegin ==
    /\ batch.pc = "running" /\ batch.obj \in Downloaders /\ batch.queue # <<>>
    /\ task.pc # "loop"
    /\ BeginDownload(batch.obj, Head(batch.queue)[1], Head(batch.queue)[2],
                     batch.autype, batch.force)
    /\ batch' = IF task'.pc = "done"
                THEN [batch EXCEPT !.queue = queue_after(@, task'.ret),
                                   !.results = Append(@, ResultOf(task', files, stats'))]
                ELSE batch
    /\ UNCHANGED <<sep, pickles, now, last, files, is_connected>>

\* the running download task makes a pass of its retry loop
BatchDownloadAttempt(login, r1, r2) ==
    /\ batch.pc = "running" /\ task.pc = "loop"
    /\ LET o == download_attempt(task.obj, files, stats, is_connected, now, sep, task.code,
                                 task.k_type, task.autype, task.attempt, login, r1, r2)
       IN  /\ Apply(o)
           /\ task' = AfterPass(task, o, KindOf(task.obj, r1, r2), RowsOf(task.obj, r1, r2))
           /\ batch' = IF o.again THEN batch
                       ELSE [batch EXCEPT !.queue = queue_after(@, o.ret),
                                          !.results = Append(@, ResultOf(task', files', stats'))]
    /\ UNCHANGED <<sep, pickles, now, last>>

\* the executor has run every task: the *_list call returns the statistics
BatchReturn ==
    /\ batch.pc = "running" /\ batch.queue = <<>> /\ task.pc # "loop"
    /\ batch' = [batch EXCEPT !.pc = "returned"]
    /\ UNCHANGED <<sep, pickles, now, last, files, stats, is_connected, task>>

NextBatch ==
    \/ \E obj \in Updaters \cup Downloaders,
          codes \in {<<>>, <<"c1">>, <<"c1", "c2">>, <<"c2", "c1">>},
          k_types \in {<<"K_DAY">>, <<"K_DAY", "K_WEEK">>},
          a \in Autypes, force \in BOOLEAN :
          BatchStart(obj, codes, k_types, a, force)
    \/ \E obj \in Updaters, kind \in CodeKinds, force \in BOOLEAN :
          BatchAllDownloaded(obj, kind, force)
    \/ \E login \in BOOLEAN, r1 \in BatchResps, r2 \in BatchResps :
          BatchUpdateTask(login, r1, r2)
    \/ BatchDownloadBegin
    \/ \E login \in BOOLEAN, r1 \in BatchResps, r2 \in BatchResps :
          BatchDownloadAttempt(login, r1, r2)
    \/ BatchReturn

SpecBatch == InitBatch /\ [][NextBatch]_vars

\* ------------------------------------------------------- concurrent batches
\* A *_list call with max_workers threads: ThreadPoolExecutor hands the submitted
\* tasks, first in first out, to its threads; the task bodies run on those threads
\* and share the files and the statistics of the object.

\* threads of the executor that are modelled
MaxWorkers == 2

Workers == 1..MaxWorkers

\* the max_workers default of the batch entry points, their object, and whether
\* they get the codes from their caller
EntryPoints ==
    [update_stock_list            |-> [obj |-> "BaoStockUpdater", max_workers |-> 1],
     update_all_downloaded_stocks |-> [obj |-> "BaoStockUpdater", max_workers |-> 3],
     update_bonds_list            |-> [obj |-> "AkshareBondUpdater", max_workers |-> 1],
     update_reits_list            |-> [obj |-> "AkshareReitsUpdater", max_workers |-> 1],
     download_stock_list          |-> [obj |-> "BaoStockDownloader", max_workers |-> 1],
     download_all_stocks          |-> [obj |-> "BaoStockDownloader", max_workers |-> 5]]

\* every entry point defaulting to the limit of download_all_stocks
default_max_workers_five(entry) == 5

\* max_workers of a call of the entry point that does not give it
default_max_workers(entry) == EntryPoints[entry].max_workers

\* the provider's answers to the passes of one download task: n raising calls, then r
RetryScripts ==
    {[i \in 1..max_retries |-> IF i <= n THEN <<Raise, Raise>> ELSE <<r, Rows(<<>>)>>] :
        n \in 0..max_retries, r \in {Rows(<<>>), Rows(<<MkBar(FirstDay, 11)>>)}}

\* the retry loop of a download task, from pass attempt on
RECURSIVE download_loop(_, _, _, _, _, _, _, _, _, _, _, _)
download_loop(obj, f, st, conn, today, s, code, k_type, autype, attempt, login, script) ==
    LET o == download_attempt(obj, f, st, conn, today, s, code, k_type, autype, attempt,
                              login, script[attempt + 1][1], script[attempt + 1][2])
    IN  IF o.again
        THEN LET rest == download_loop(obj, f, st, o.conn, today, s, code, k_type, autype,
                                       attempt + 1, login, script)
             IN  [rest EXCEPT !.fetches = @ + o.fetches]
        ELSE o

\* download_single_stock / download_single_reit / download_single_bond as a whole
download_single(obj, f, st, conn, today, s, code, k_type, autype, force, login, script) ==
    LET p == StoragePath(obj, code, k_type, autype)
    IN  IF obj # "BaoStockDownloader" /\ k_type # "K_DAY"
        THEN [Outcome(f, st, conn) EXCEPT !.ret = TRUE]
        ELSE IF ~force /\ already_downloaded(f, p[3], p[2], p[1])
        THEN ReturnSkipped(Outcome(f, st, conn))
        ELSE download_loop(obj, f, st, conn, today, s, code, k_type, autype, 0, login, script)

\* the counters in the order the task bodies add to them
CounterOrder ==
    <<"skipped_count", "updated_count", "new_records", "success_count", "total_records",
      "failed_count">>

\* the "+= n" statements a task body executes for the counters it changes by d
RECURSIVE Increments(_, _)
Increments(d, order) ==
    IF order = <<>> THEN <<>>
    ELSE (IF d[Head(order)] > 0 THEN <<[counter |-> Head(order), n |-> d[Head(order)]]>>
          ELSE <<>>) \o Increments(d, Tail(order))

IdleWorker ==
    [pc |-> "idle", code |-> "c1", k_type |-> "K_DAY", ret |-> FALSE, writes |-> 0,
     file |-> NoFile, incs |-> <<>>, failed |-> <<>>, tmp |-> 0, counted |-> "none"]

NoPool ==
    [pc |-> "idle", obj |-> "none", entry |-> "none", limit |-> 0, explicit |-> 0,
     autype |-> "NONE",
     force |-> FALSE, submitted |-> <<>>, queue |-> <<>>, results |-> <<>>,
     workers |-> [w \in Workers |-> IdleWorker]]

\* the tasks that are taken by a thread and have not ended
InFlight == {w \in Workers : batch.workers[w].pc # "idle"}

InitPar ==
    /\ sep \in Seps
    /\ pickles = [q \in Paths |-> NoPickle]
    /\ now \in BarDates
    /\ is_connected \in BOOLEAN
    /\ \E c \in {NoFile, FileOf(<<MkBar(FirstDay, 10)>>, sep)} :
          files = [q \in Paths |-> IF q[3] = "c1" /\ q[2] = "K_DAY" THEN c ELSE NoFile]
    /\ stats = ZeroStats
    /\ task = IdleTask
    /\ last = NoOp
    /\ batch = NoPool

\* a batch entry point is called, with max_workers given (explicit > 0) or left to
\* its default; the codes come from the caller, the data directory or the provider
ParStart(entry, explicit, codes, autype, force) ==
    /\ batch.pc = "idle"
    /\ IF entry = "update_all_downloaded_stocks" /\ ~CallOK("get_downloaded_stocks", 0)
       THEN /\ batch' = [batch EXCEPT !.pc = "raised", !.entry = entry,
                                      !.explicit = explicit,
                                      !.obj = EntryPoints[entry].obj]
            /\ UNCHANGED stats
       ELSE IF codes = <<>>
       THEN /\ batch' = [batch EXCEPT !.pc = "returned", !.entry = entry,
                                      !.explicit = explicit,
                                      !.obj = EntryPoints[entry].obj]
            /\ UNCHANGED stats
       ELSE /\ batch' = [batch EXCEPT !.pc = "running", !.entry = entry,
                                      !.obj = EntryPoints[entry].obj,
                                      !.explicit = explicit,
                                      !.limit = IF explicit > 0 THEN explicit
                                                ELSE default_max_workers(entry),
                                      !.autype = autype, !.force = force,
                                      !.submitted = TasksOf(codes, <<"K_DAY">>),
                                      !.queue = TasksOf(codes, <<"K_DAY">>)]
            /\ stats' = ZeroStats
    /\ UNCHANGED <<sep, pickles, now, last, files, is_connected, task>>

\* the worker record of a thread that has run the body of a task up to its write
Ran(code, k_type, o) ==
    [IdleWorker EXCEPT !.pc = IF o.writes = 1 THEN "write"
                              ELSE IF Increments(o.stats, CounterOrder) # <<>> THEN "read"
                              ELSE "end",
                       !.code = code, !.k_type = k_type, !.ret = o.ret, !.writes = o.writes,
                       !.file = o.files[StoragePath(batch.obj, code, k_type, batch.autype)],
                       !.incs = Increments(o.stats, CounterOrder),
                       !.failed = o.stats.failed,
                       !.counted = Counted(ZeroStats, o.stats)]

\* a free thread takes the next task and runs its body up to the store write: the
\* range, the fetch and the merge with the series it read
ParRunUpdate(w, login, r1, r2) ==
    /\ batch.pc = "running" /\ batch.obj \in Updaters /\ batch.queue # <<>>
    /\ w <= batch.limit /\ batch.workers[w].pc = "idle"
    /\ LET code == Head(batch.queue)[1]
           k_type == Head(batch.queue)[2]
           o == update_single(batch.obj, files, ZeroStats, is_connected, now, sep, code,
                              k_type, batch.autype, batch.force, login, r1, r2)
       IN  /\ batch' = [batch EXCEPT !.queue = Tail(@), !.workers[w] = Ran(code, k_type, o)]
           /\ is_connected' = o.conn
    /\ UNCHANGED <<sep, pickles, now, last, files, stats, task>>

ParRunDownload(w, login, script) ==
    /\ batch.pc = "running" /\ batch.obj \in Downloaders /\ batch.queue # <<>>
    /\ w <= batch.limit /\ batch.workers[w].pc = "idle"
    /\ LET code == Head(batch.queue)[1]
           k_type == Head(batch.queue)[2]
           o == download_single(batch.obj, files, ZeroStats, is_connected, now, sep, code,
                                k_type, batch.autype, batch.force, login, script)
       IN  /\ batch' = [batch EXCEPT !.queue = Tail(@), !.workers[w] = Ran(code, k_type, o)]
           /\ is_connected' = o.conn
    /\ UNCHANGED <<sep, pickles, now, last, files, stats, task>>

\* the thread writes the file it built
ParWrite(w) ==
    /\ batch.pc = "running" /\ batch.workers[w].pc = "write"
    /\ LET wk == batch.workers[w]
       IN  /\ files' = [files EXCEPT ![StoragePath(batch.obj, wk.code, wk.k_type,
                                                   batch.autype)] = wk.file]
           /\ batch' = [batch EXCEPT !.workers[w].pc = IF wk.incs # <<>> THEN "read" ELSE "end"]
    /\ UNCHANGED <<sep, pickles, now, last, stats, is_connected, task>>

\* stats[counter] += n, first half: the thread reads the counter
ParStatRead(w) ==
    /\ batch.pc = "running" /\ batch.workers[w].pc = "read"
    /\ batch' = [batch EXCEPT !.workers[w].pc = "add",
                              !.workers[w].tmp = stats[Head(batch.workers[w].incs).counter]]
    /\ UNCHANGED <<sep, pickles, now, last, files, stats, is_connected, task>>

\* stats[counter] += n, second half: the thread stores the sum; after failed_count
\* the name is appended to the failed list
ParStatWrite(w) ==
    /\ batch.pc = "running" /\ batch.workers[w].pc = "add"
    /\ LET wk == batch.workers[w]
           inc == Head(wk.incs)
       IN  /\ stats' = [stats EXCEPT ![inc.counter] = wk.tmp + inc.n,
                                     !.failed = IF inc.counter = "failed_count"
                                                THEN @ \o wk.failed ELSE @]
           /\ batch' = [batch EXCEPT !.workers[w].incs = Tail(@),
                                     !.workers[w].pc = IF Tail(wk.incs) # <<>> THEN "read"
                                                       ELSE "end"]
    /\ UNCHANGED <<sep, pickles, now, last, files, is_connected, task>>

\* the task body returns: its future completes and the thread is free again
ParTaskEnd(w) ==
    /\ batch.pc = "running" /\ batch.workers[w].pc = "end"
    /\ LET wk == batch.workers[w]
       IN  batch' = [batch EXCEPT !.workers[w] = IdleWorker,
                                  !.results = Append(@, [code |-> wk.code, k_type |-> wk.k_type,
                                                         ret |-> wk.ret, writes |-> wk.writes,
                                                         file |-> wk.file,
                                                         counted |-> wk.counted])]
    /\ UNCHANGED <<sep, pickles, now, last, files, stats, is_connected, task>>

\* every future is collected: the *_list call returns the statistics
ParReturn ==
    /\ batch.pc = "running" /\ batch.queue = <<>> /\ InFlight = {}
    /\ batch' = [batch EXCEPT !.pc = "returned"]
    /\ UNCHANGED <<sep, pickles, now, last, files, stats, is_connected, task>>

NextPar ==
    \/ \E entry \in DOMAIN EntryPoints, explicit \in {0, 2},
          codes \in {<<>>, <<"c1">>, <<"c1", "c2">>, <<"c1", "c1">>},
          a \in Autypes, force \in BOOLEAN :
          ParStart(entry, explicit, codes, a, force)
    \/ \E w \in Workers, login \in BOOLEAN, r1 \in BatchResps, r2 \in BatchResps :
          ParRunUpdate(w, login, r1, r2)
    \/ \E w \in Workers, login \in BOOLEAN, script \in RetryScripts :
          ParRunDownload(w, login, script)
    \/ \E w \in Workers : ParWrite(w)
    \/ \E w \in Workers : ParStatRead(w)
    \/ \E w \in Workers : ParStatWrite(w)
    \/ \E w \in Workers : ParTaskEnd(w)
    \/ ParReturn

SpecPar == InitPar /\ [][NextPar]_vars

\* ------------------------------------------------- loading a damaged file
\* load_kline_data_csv on files whose data rows may be damaged: a row cut short,
\* a row whose time field is no date, an empty line
MaxLines == 3

ShortRow(s) == SubSeq(CsvRow(MkBar(FirstDay, 10), s), 1, 7)

BadTimeRow(s) == <<BadTimeText>> \o Tail(CsvRow(MkBar(FirstDay, 11), s))

BlankLine == <<>>

LineKinds(s) == {CsvRow(b, s) : b \in Bars} \cup {ShortRow(s), BadTimeRow(s), BlankLine}

InitLoad ==
    /\ sep \in Seps
    /\ pickles = [q \in Paths |-> NoPickle]
    /\ now = AddDays(FirstDay, NumDays - 1)
    /\ \E c \in {NoFile} \cup {File(<<Header>> \o L) : L \in SeqsUpTo(LineKinds(sep), MaxLines)} :
          files = [p \in Paths |-> IF p = StorePath THEN c ELSE NoFile]
    /\ last = NoOp
    /\ stats = ZeroStats
    /\ is_connected = FALSE
    /\ task = IdleTask
    /\ batch = NoBatch

\* util.load_kline_data_csv(code, k_type, autype): the list it returns (ret) and
\* the number of warnings it logged (saved)
LoadCsv(code, k_type, autype) ==
    LET file == files[create_data_file_path(code, k_type, autype)]
    IN  /\ last' = [NoOp EXCEPT
                      !.op = "load_csv",
                      !.path = create_data_file_path(code, k_type, autype),
                      !.pre = file,
                      !.ret = load_kline_data_csv(files, code, k_type, autype),
                      !.saved = IF file.exists /\ file.lines # <<>>
                                THEN load_warnings(Tail(file.lines)) ELSE 0]
        /\ UNCHANGED <<sep, pickles, now, files, stats, is_connected, task, batch>>

NextLoad ==
    \/ \E a \in Autypes : LoadCsv("c1", "K_DAY", a)
    \/ Latest("c1", "K_DAY", "QFQ")

SpecLoad == InitLoad /\ [][NextLoad]_vars

\* ------------------------------------------- downloads onto an existing file
\* A download or bond-update task on a data directory in which the file of one
\* key of the code, of any period and adjustment, is absent, empty (0 bytes),
\* holds the header alone, or holds one bar.
InitSkip ==
    /\ sep \in Seps
    /\ pickles = [q \in Paths |-> NoPickle]
    /\ now \in BarDates
    /\ is_connected = FALSE
    /\ \E p \in {create_data_file_path("c1", k, a) : k \in KTypes, a \in Autypes} :
       \E c \in {NoFile, File(<<>>), File(<<Header>>), FileOf(<<MkBar(FirstDay, 10)>>, sep)} :
          files = [q \in Paths |-> IF q = p THEN c ELSE NoFile]
    /\ stats = ZeroStats
    /\ task = IdleTask
    /\ last = NoOp
    /\ batch = NoBatch

NextSkip ==
    \/ \E obj \in Downloaders, k \in KTypes, a \in Autypes, force \in BOOLEAN :
          DownloadSingleBegin(obj, "c1", k, a, force)
    \/ \E login \in BOOLEAN, resp \in BatchResps : DownloadStockAttempt(login, resp)
    \/ \E resp \in BatchResps : DownloadReitAttempt(resp)
    \/ \E r1 \in BatchResps, r2 \in BatchResps : DownloadBondAttempt(r1, r2)
    \/ \E k \in KTypes, a \in Autypes, force \in BOOLEAN, r1 \in BatchResps :
          UpdateSingleBond("c1", k, a, force, r1, Raise)

SpecSkip == InitSkip /\ [][NextSkip]_vars

\* ------------------------------------------- tasks one after another
\* Download and bond-update tasks run one after another on one key, the provider
\* answering with up to MaxNew bars in any order and with repeated days; the
\* stored series at the start is any series a file can hold.
MaxTasks == 2

SeriesResps == {Raise} \cup {Rows(b) : b \in SeqsUpTo(Bars, MaxNew)}

InitSeries ==
    /\ sep \in Seps
    /\ pickles = [q \in Paths |-> NoPickle]
    /\ now = AddDays(FirstDay, NumDays - 1)
    /\ is_connected = FALSE
    /\ \E p \in {create_data_file_path("c1", "K_DAY", a) : a \in Autypes} :
       \E c \in {NoFile} \cup {FileOf(S, sep) : S \in SeqsUpTo(Bars, MaxNew)} :
          files = [q \in Paths |-> IF q = p THEN c ELSE NoFile]
    /\ stats = ZeroStats
    /\ task = IdleTask
    /\ last = NoOp
    /\ batch = NoBatch

\* the caller takes the result of the task and may start the next one
TaskReturn ==
    /\ task.pc = "done"
    /\ stats.success_count + stats.failed_count + stats.skipped_count < MaxTasks
    /\ task' = IdleTask
    /\ UNCHANGED <<sep, files, pickles, now, last, stats, is_connected, batch>>

NextSeries ==
    \/ \E obj \in Downloaders, a \in Autypes, force \in BOOLEAN :
          DownloadSingleBegin(obj, "c1", "K_DAY", a, force)
    \/ \E login \in BOOLEAN, resp \in SeriesResps : DownloadStockAttempt(login, resp)
    \/ \E resp \in SeriesResps : DownloadReitAttempt(resp)
    \/ \E r1 \in SeriesResps : DownloadBondAttempt(r1, Raise)
    \/ \E a \in Autypes, force \in BOOLEAN, r1 \in SeriesResps :
          UpdateSingleBond("c1", "K_DAY", a, force, r1, Raise)
    \/ TaskReturn

SpecSeries == InitSeries /\ [][NextSeries]_vars

\* ------------------------------------------------ exchange-prefix resolution
\* str.strip(): leading and trailing blanks removed
RECURSIVE lstrip(_)
lstrip(s) ==
    IF Len(s) > 0 /\ SubSeq(s, 1, 1) = " " THEN lstrip(SubSeq(s, 2, Len(s))) ELSE s

RECURSIVE rstrip(_)
rstrip(s) ==
    IF Len(s) > 0 /\ SubSeq(s, Len(s), Len(s)) = " "
    THEN rstrip(SubSeq(s, 1, Len(s) - 1)) ELSE s

strip(s) == rstrip(lstrip(s))

\* str.lower() over the letters that occur in the codes
lower_char(c) ==
    IF c = "S" THEN "s" ELSE IF c = "H" THEN "h" ELSE IF c = "Z" THEN "z" ELSE c

RECURSIVE lower(_)
lower(s) ==
    IF Len(s) = 0 THEN s ELSE lower_char(SubSeq(s, 1, 1)) \o lower(SubSeq(s, 2, Len(s)))

\* str.startswith(prefix)
startswith(s, prefix) == Len(s) >= Len(prefix) /\ SubSeq(s, 1, Len(prefix)) = prefix

\* the order in which the exchanges are tried: Shanghai, then Shenzhen
candidate_prefixes_sz_first == <<"sz", "sh">>

candidate_prefixes == <<"sh", "sz">>

\* bs.query_stock_basic(code=...): an error code and whether a row came back
QueryResults == [error_code : {"0", "10004011"}, row : BOOLEAN]

found(rs) == rs.error_code = "0" /\ rs.row

\* BaoStockUpdater._normalize_stock_code (BaoStockDownloader has the same method):
\* the returned code, the lookups made in order, and is_connected afterwards
BaoStock_normalize_stock_code(code0, conn, login, rs_sh, rs_sz) ==
    LET code == strip(code0)
        first == candidate_prefixes[1] \o "." \o code
        second == candidate_prefixes[2] \o "." \o code
    IN  IF startswith(code, "sh.") \/ startswith(code, "sz.")
        THEN [ret |-> code, lookups |-> <<>>, conn |-> conn]
        ELSE IF ~connect(conn, login)
        THEN [ret |-> code, lookups |-> <<>>, conn |-> FALSE]
        ELSE IF found(rs_sh)
        THEN [ret |-> first, lookups |-> <<first>>, conn |-> TRUE]
        ELSE IF found(rs_sz)
        THEN [ret |-> second, lookups |-> <<first, second>>, conn |-> TRUE]
        ELSE [ret |-> code, lookups |-> <<first, second>>, conn |-> TRUE]

\* normalize_symbol_candidates of bond_update / bond_download_offline
normalize_symbol_candidates(code) ==
    LET c == lower(strip(code))
    IN  IF startswith(c, "sh") \/ startswith(c, "sz") THEN <<c>>
        ELSE <<candidate_prefixes[1] \o c, candidate_prefixes[2] \o c>>

\* AkshareBondUpdater._fetch_df_by_candidates over the candidates of a code, resps
\* being the provider's answers to the candidates in order: the symbol that
\* answered with rows (None if no candidate did), its rows, and the symbols asked
RECURSIVE fetch_over(_, _, _)
fetch_over(cands, resps, asked) ==
    IF cands = <<>> THEN [symbol |-> None, rows |-> <<>>, lookups |-> asked]
    ELSE IF resps[1].kind = "rows" /\ resps[1].rows # <<>>
    THEN [symbol |-> Some(cands[1]), rows |-> resps[1].rows,
          lookups |-> Append(asked, cands[1])]
    ELSE fetch_over(Tail(cands), Tail(resps), Append(asked, cands[1]))

AkshareBondUpdater_fetch_df_by_candidates(code, resps) ==
    fetch_over(normalize_symbol_candidates(code), resps, <<>>)

\* the codes a caller passes: bare, with a dotted or undotted exchange prefix, in
\* upper case, and with blanks around them
RawCodes ==
    {lead \o pre \o "6" \o trail :
        lead \in {"", " "}, pre \in {"", "sh.", "sz.", "sh", "sz", "SH"},
        trail \in {"", " "}}

InitNorm ==
    /\ sep \in Seps
    /\ files = [q \in Paths |-> NoFile]
    /\ pickles = [q \in Paths |-> NoPickle]
    /\ now \in BarDates
    /\ last = NoOp
    /\ stats = ZeroStats
    /\ is_connected = FALSE
    /\ task = IdleTask
    /\ batch = NoBatch

\* self._normalize_stock_code(code), the provider answering login, rs_sh, rs_sz
NormalizeStockCode(code, login, rs_sh, rs_sz) ==
    LET r == BaoStock_normalize_stock_code(code, is_connected, login, rs_sh, rs_sz)
    IN  /\ last' = [NoOp EXCEPT !.op = "normalize_stock_code", !.arg = code,
                                !.ret = Some(r.ret), !.saved = r.lookups,
                                !.rep = found(rs_sh)]
        /\ is_connected' = r.conn
        /\ UNCHANGED <<sep, files, pickles, now, stats, task, batch>>

\* self._fetch_df_by_candidates(code), the provider answering r1, r2
FetchByCandidates(code, r1, r2) ==
    LET r == AkshareBondUpdater_fetch_df_by_candidates(code, <<r1, r2>>)
    IN  /\ last' = [NoOp EXCEPT !.op = "fetch_df_by_candidates", !.arg = code,
                                !.ret = r.symbol, !.saved = r.lookups,
                                !.rep = r1.kind = "rows" /\ r1.rows # <<>>]
        /\ UNCHANGED <<sep, files, pickles, now, stats, is_connected, task, batch>>

\* BaoStockUpdater.disconnect
Disconnect ==
    /\ is_connected
    /\ is_connected' = FALSE
    /\ UNCHANGED <<sep, files, pickles, now, last, stats, task, batch>>

NextNorm ==
    \/ \E code \in RawCodes, login \in BOOLEAN, rs_sh \in QueryResults,
          rs_sz \in QueryResults : NormalizeStockCode(code, login, rs_sh, rs_sz)
    \/ \E code \in RawCodes, r1 \in BatchResps, r2 \in BatchResps :
          FetchByCandidates(code, r1, r2)
    \/ Disconnect

SpecNorm == InitNorm /\ [][NextNorm]_vars

\* ------------------------------------------------ listing the data directory
\* str.isdigit() over the characters that occur in the file names
RECURSIVE isdigit(_)
isdigit(s) ==
    /\ Len(s) > 0
    /\ SubSeq(s, 1, 1) \in {"0", "1", "2", "3", "4", "5", "6", "7", "8", "9"}
    /\ Len(s) = 1 \/ isdigit(SubSeq(s, 2, Len(s)))

RECURSIVE has_dot(_)
\* '.' in code
has_dot(s) == Len(s) > 0 /\ (SubSeq(s, 1, 1) = "." \/ has_dot(SubSeq(s, 2, Len(s))))

is_stock(code) == has_dot(code)

is_bond(code) == isdigit(code) /\ Len(code) = 6 /\ startswith(code, "01")

is_reit(code) == isdigit(code) /\ Len(code) = 6 /\ ~startswith(code, "01")

\* the file names (without .csv) a data directory can hold, in sorted order: a
\* five-digit name, a treasury bond, a convertible bond, a REIT, a stock
DirCodes == <<"01954", "019547", "113001", "508000", "sh.600000">>

DirCodeSet == {DirCodes[i] : i \in 1..Len(DirCodes)}

DirPaths == {create_data_file_path(c, "K_DAY", a) : c \in DirCodeSet, a \in Autypes}

\* the codes with a CSV file in a period directory under autype
csv_codes(f, autype) ==
    {c \in DirCodeSet : f[create_data_file_path(c, "K_DAY", autype)].exists}

\* OfflineDataUtil.get_downloaded_stocks(autype, stock_type) on the names of the
\* files: the sorted codes of the class asked for
downloaded_codes(f, autype, stock_type) ==
    SortedFrom(DirCodes,
               {c \in csv_codes(f, autype) :
                    \/ stock_type = "reits" /\ is_reit(c)
                    \/ stock_type = "stock" /\ is_stock(c)
                    \/ stock_type = "bond" /\ is_bond(c)})

\* update_all_downloaded_bonds / update_all_downloaded_reits: the codes handed to
\* update_bonds_list / update_reits_list, which submits one task per code
update_all_downloaded_codes(f) == downloaded_codes(f, "NONE", "reits")

InitListing ==
    /\ sep \in Seps
    /\ files \in [DirPaths -> {NoFile, File(<<Header>>)}]
    /\ pickles = [q \in Paths |-> NoPickle]
    /\ now = FirstDay
    /\ last = NoOp
    /\ stats = ZeroStats
    /\ is_connected = FALSE
    /\ task = IdleTask
    /\ batch = NoBatch

\* util.get_downloaded_stocks(autype, stock_type)
ListDownloaded(autype, stock_type) ==
    /\ last' = [NoOp EXCEPT !.op = "get_downloaded_stocks", !.arg = <<autype, stock_type>>,
                            !.ret = downloaded_codes(files, autype, stock_type)]
    /\ UNCHANGED <<sep, files, pickles, now, stats, is_connected, task, batch>>

\* AkshareBondUpdater.update_all_downloaded_bonds up to the submission of the tasks
UpdateAllDownloadedBonds ==
    /\ last' = [NoOp EXCEPT !.op = "update_all_downloaded_bonds",
                            !.ret = update_all_downloaded_codes(files)]
    /\ UNCHANGED <<sep, files, pickles, now, stats, is_connected, task, batch>>

\* AkshareReitsUpdater.update_all_downloaded_reits up to the submission of the tasks
UpdateAllDownloadedReits ==
    /\ last' = [NoOp EXCEPT !.op = "update_all_downloaded_reits",
                            !.ret = update_all_downloaded_codes(files)]
    /\ UNCHANGED <<sep, files, pickles, now, stats, is_connected, task, batch>>

NextListing ==
    \/ \E a \in Autypes, stock_type \in CodeKinds : ListDownloaded(a, stock_type)
    \/ UpdateAllDownloadedBonds
    \/ UpdateAllDownloadedReits

SpecListing == InitListing /\ [][NextListing]_vars

\* ------------------------------------------------------ claims on the store
Times(S) == {S[i].time : i \in 1..Len(S)}

\* chronological order of two CTime values
CTimeLT(a, b) ==
    LET ka == <<a.year, a.month, a.day, a.hour, a.minute>>
        kb == <<b.year, b.month, b.day, b.hour, b.minute>>
    IN  \E i \in 1..5 : (\A j \in 1..(i - 1) : ka[j] = kb[j]) /\ ka[i] < kb[i]

StrictlyIncreasing(S) == \A i \in 1..(Len(S) - 1) : CTimeLT(S[i].time, S[i + 1].time)

\* the last bar of N dated t
LastAt(N, t) ==
    N[CHOOSE i \in 1..Len(N) : N[i].time = t /\ \A j \in (i + 1)..Len(N) : N[j].time # t]

\* C1: after append_kline_data(key, N) on a stored series S, the stored series has
\* exactly one bar per distinct timestamp of S and N together, is sorted ascending by
\* timestamp, and at every timestamp of N carries the values of the last bar of N
\* with that timestamp.
C1_AppendMergeOverwrites ==
    last.op = "append" =>
        LET S == load_file(last.pre)
            N == last.arg
            R == load_file(files[last.path])
        IN  /\ Times(R) = Times(S) \cup Times(N)
            /\ \A t \in Times(R) : Cardinality({i \in 1..Len(R) : R[i].time = t}) = 1
            /\ StrictlyIncreasing(R)
            /\ \A i \in 1..Len(R) : R[i].time \in Times(N) => R[i] = LastAt(N, R[i].time)

\* the scenario of the claim: one stored bar, overwritten by the first new bar, and a
\* second new bar dated the next day
C1_Witness ==
    /\ last.op = "append"
    /\ load_file(last.pre) = <<MkBar(FirstDay, 10)>>
    /\ last.arg = <<MkBar(FirstDay, 11), MkBar(AddDays(FirstDay, 1), 12)>>
    /\ load_file(files[last.path]) = last.arg

\* C6: append_kline_data(key, N) called twice in a row leaves the stored series the
\* first call left.
C6_AppendIdempotent ==
    (last.op = "append" /\ last.rep) => files[last.path] = last.pre

C6_Witness ==
    /\ last.op = "append" /\ last.rep
    /\ Len(last.arg) = 2
    /\ last.arg[1].time = last.arg[2].time
    /\ last.arg[1] # last.arg[2]

DateOf(t) == <<t.year, t.month, t.day>>

TaskDone == task.pc = "done"

\* the series stored under the key of the task, as load_kline_data_csv reads it
StoredOfTask(f) ==
    LET p == StoragePath(task.obj, task.code, task.k_type, task.autype)
    IN  load_kline_data_csv(f, p[3], p[2], p[1])

\* the range the resolver is to return for a stored series whose latest time is L
RangeAfter(L, today) ==
    IF DateStrGT(AddDays(DateOf(L), 1), today) THEN <<None, today>>
    ELSE <<Some(AddDays(DateOf(L), 1)), today>>

\* C2: for each of the three updaters, when the stored series of the key has latest
\* timestamp L, get_update_date_range returns start = None exactly when L + 1 day is
\* later than the current date, and the range [L + 1 day, current date] otherwise.
C2_RangeFromLatest ==
    \A k \in KTypes, a \in Autypes :
        LET L == get_latest_data_time(files, "c1", k, a)
        IN  L # None =>
                /\ BaoStockUpdater_get_update_date_range(files, "c1", k, now)
                       = RangeAfter(L[1], now)
                /\ AkshareBondUpdater_get_update_date_range(files, "c1", k, a, now)
                       = RangeAfter(L[1], now)
                /\ AkshareReitsUpdater_get_update_date_range(files, "c1", k, a, now)
                       = RangeAfter(L[1], now)

\* C3: when the latest stored bar of a key is dated on the current date, an
\* incremental update task returns success, adds exactly one to skipped_count, makes
\* no provider fetch and no store write; the files and the other counters are as
\* they were before the task.
C3_CurrentIsSkipped ==
    (/\ TaskDone
     /\ task.obj \in Updaters
     /\ ~task.force
     /\ task.latest # None
     /\ DateOf(task.latest[1]) = now)
        => /\ task.ret
           /\ stats = Skipped(task.pre)
           /\ task.fetches = 0
           /\ task.writes = 0
           /\ ~task.changed

\* the default lookback of an updater
LookbackOf(obj) ==
    IF obj = "BaoStockUpdater" THEN 30 ELSE IF obj = "AkshareBondUpdater" THEN 90 ELSE 60

\* C4: for each of the three updaters, when no series is stored for the key,
\* get_update_date_range returns [current date - lookback days, current date] and
\* never start = None (lookback 30 and now = 2024-03-10 give [2024-02-09, 2024-03-10]);
\* an incremental task on such a key resolves that start.
C4_NoDataWindow ==
    LET latest == [k \in KTypes, a \in Autypes |-> get_latest_data_time(files, "c1", k, a)]
        back30 == AddDays(now, 0 - 30)
        back60 == AddDays(now, 0 - 60)
        back90 == AddDays(now, 0 - 90)
    IN  /\ \A k \in KTypes :
              /\ (\A a \in Autypes : latest[k, a] = None)
                     => BaoStockUpdater_get_update_date_range(files, "c1", k, now)
                            = <<Some(back30), now>>
              /\ \A a \in Autypes :
                     latest[k, a] = None
                         => /\ AkshareBondUpdater_get_update_date_range(files, "c1", k, a, now)
                                   = <<Some(back90), now>>
                            /\ AkshareReitsUpdater_get_update_date_range(files, "c1", k, a, now)
                                   = <<Some(back60), now>>
        /\ (now = <<2024, 3, 10>> /\ \A a \in Autypes : latest["K_DAY", a] = None)
               => /\ BaoStockUpdater_get_update_date_range(files, "c1", "K_DAY", now)
                         = <<Some(<<2024, 2, 9>>), <<2024, 3, 10>>>>
                  /\ AkshareBondUpdater_get_update_date_range(files, "c1", "K_DAY", "NONE", now)
                         = <<Some(<<2023, 12, 11>>), <<2024, 3, 10>>>>
                  /\ AkshareReitsUpdater_get_update_date_range(files, "c1", "K_DAY", "NONE", now)
                         = <<Some(<<2024, 1, 10>>), <<2024, 3, 10>>>>
        /\ (/\ TaskDone
            /\ task.obj \in Updaters
            /\ ~task.force
            /\ task.obj # "BaoStockUpdater" => task.k_type = "K_DAY"
            /\ task.latest = None)
               => task.start = Some(AddDays(now, 0 - LookbackOf(task.obj)))

C4_Witness ==
    /\ TaskDone
    /\ task.obj = "BaoStockUpdater"
    /\ ~task.force
    /\ task.latest = None
    /\ now = <<2024, 3, 10>>
    /\ task.start = Some(<<2024, 2, 9>>)
    /\ task.fetches = 1

\* C5: a force-full update of a key, the provider answering with a non-empty list of
\* bars, succeeds and leaves exactly the fetched bars stored under the key (stock,
\* bond and REIT updaters).
C5_ForceFullReplaces ==
    (/\ TaskDone
     /\ task.obj \in Updaters
     /\ task.force
     /\ task.k_type = "K_DAY"
     /\ task.obj = "BaoStockUpdater" => is_connected
     /\ task.rows # <<>>)
        => /\ task.ret
           /\ task.fetches = 1
           /\ StoredOfTask(files) = task.rows

\* C8: in every updater and downloader task, a fetch that completes without error
\* and returns zero rows ends the task with True and one more in skipped_count;
\* failed_count and the failed list stay, and the fetch is made once.
C8_EmptyFetchIsSkip ==
    (TaskDone /\ task.resp = "empty")
        => /\ task.ret
           /\ stats.skipped_count = task.pre.skipped_count + 1
           /\ stats.failed_count = task.pre.failed_count
           /\ stats.failed = task.pre.failed
           /\ task.fetches = 1

\* the name a failed task of the object is listed under
FailedName(obj, code, k_type) ==
    IF obj \in {"AkshareBondUpdater", "AkshareBondDownloader"} THEN code
    ELSE TaskName(code, k_type)

CountedAs(c) == {i \in 1..Len(batch.results) : batch.results[i].counted = c}

C11_BatchReturnsStats ==
    /\ batch.pc # "raised"
    /\ batch.pc \in {"running", "returned"} =>
          /\ Len(stats.failed) = stats.failed_count
          /\ \A i \in 1..Len(stats.failed) :
                \E c \in Codes, k \in KTypes : stats.failed[i] = TaskName(c, k)

\* C12: every batch invocation resets the counters and the failed list before any
\* task runs, so the statistics it returns count only its own tasks, also on an
\* object that ran an earlier batch and also for an empty code list.
C12_BatchResets ==
    /\ (batch.pc = "running" /\ batch.results = <<>> /\ task.pc # "loop") => stats = ZeroStats
    /\ batch.pc = "returned" =>
          /\ stats.failed_count = Cardinality(CountedAs("failed"))
          /\ stats.success_count = Cardinality(CountedAs("success"))
          /\ stats.skipped_count = Cardinality(CountedAs("skipped"))
          /\ Len(stats.failed) = Cardinality(CountedAs("failed"))

\* C13: with max_workers > 1 no counter increment is lost under any interleaving:
\* when the batch returns, each counter equals the number of tasks that ended in
\* that outcome.
C13_NoLostIncrement ==
    (batch.pc = "returned" /\ batch.submitted # <<>> /\ batch.limit > 1) =>
        /\ stats.failed_count = Cardinality(CountedAs("failed"))
        /\ stats.success_count = Cardinality(CountedAs("success"))
        /\ stats.skipped_count = Cardinality(CountedAs("skipped"))

\* the file a worker thread's task reads, merges and writes
KeyInFlight(w) ==
    StoragePath(batch.obj, batch.workers[w].code, batch.workers[w].k_type, batch.autype)

\* C14: during a batch with max_workers > 1 no two tasks in flight at the same time
\* work on the file of the same (code, period, adjustment), whatever code list the
\* caller passed.
C14_NoSharedKeyInFlight ==
    (batch.pc = "running" /\ batch.limit > 1) =>
        \A w1 \in InFlight, w2 \in InFlight : w1 # w2 => KeyInFlight(w1) # KeyInFlight(w2)

\* ------------------------------------------------ claims on store errors
\* the store call of some pass of the task raised with this kind of error
RaisedIn(kind) == \E i \in 1..Len(task.io) : task.io[i] = kind

\* C15: if the store write (save or append_merge) raises during an update or
\* download task, the task returns failure, failed_count is incremented, the key is
\* added to the failed list and success_count is not incremented.
C15_WriteErrorIsFailure ==
    (TaskDone /\ RaisedIn("write")) =>
        /\ ~task.ret
        /\ stats.failed_count = task.pre.failed_count + 1
        /\ stats.failed = Append(task.pre.failed, FailedName(task.obj, task.code, task.k_type))
        /\ stats.success_count = task.pre.success_count

\* C16: an I/O or decoding error while reading the stored series file is caught
\* inside load: an incremental update task on such a file goes on as if no data
\* were stored (it resolves the default lookback window) instead of ending as
\* failed because of the read.
C16_ReadErrorIsEmpty ==
    (/\ TaskDone
     /\ task.obj \in Updaters
     /\ ~task.force
     /\ task.unreadable)
        => /\ ~RaisedIn("read")
           /\ task.start = Some(AddDays(now, 0 - LookbackOf(task.obj)))

\* ------------------------------------------- claims on the adjustment type
BondReitObjs ==
    {"AkshareBondUpdater", "AkshareReitsUpdater", "AkshareBondDownloader",
     "AkshareReitsDownloader"}

AdjustedPaths == {p \in Paths : p[1] # "NONE"}

\* C17: every existence check, read, delete and write of the bond and REIT update
\* and download tasks targets the key with adjustment type NONE, whatever type the
\* caller requested: no step of such a task creates or changes a file under an
\* adjusted path, a download is skipped only for an existing NONE file, and an
\* incremental update beside an adjusted file alone resolves the no-data window.
C17_BondReitStoreUnderNone ==
    /\ [][task'.obj \in BondReitObjs => \A p \in AdjustedPaths : files'[p] = files[p]]_vars
    /\ [](\A p \in AdjustedPaths :
            (/\ TaskDone /\ task.obj \in BondReitObjs /\ task.k_type = "K_DAY"
             /\ p[2] = "K_DAY" /\ p[3] = task.code /\ files[p].exists)
                => /\ (task.obj \in Downloaders /\ task.attempt = 0) =>
                          (task.force \/ files[p].lines = <<>>)
                   /\ (task.obj \in Updaters /\ ~task.force) =>
                          task.start = Some(AddDays(now, 0 - LookbackOf(task.obj))))

C17_Witness ==
    /\ TaskDone
    /\ task.obj = "AkshareBondUpdater"
    /\ task.autype = "QFQ"
    /\ task.writes = 1
    /\ files[create_data_file_path("c1", "K_DAY", "QFQ")].exists
    /\ files[create_data_file_path("c1", "K_DAY", "NONE")].exists

\* ----------------------------------------------------- claims on the session
\* task i of the batch ended because connect() returned False: a stock task
\* returns False without a fetch and without a counter only there
LoginFailed(i) ==
    /\ batch.obj \in {"BaoStockUpdater", "BaoStockDownloader"}
    /\ ~batch.results[i].ret
    /\ batch.results[i].fetches = 0
    /\ batch.results[i].counted = "none"

\* C18: if the provider login fails in a stock batch, the whole batch is aborted:
\* after the first failed login no remaining task attempts another login, a fetch
\* or a store write.
C18_LoginFailureAborts ==
    \A i \in 1..Len(batch.results), j \in 1..Len(batch.results) :
        (i < j /\ LoginFailed(i)) =>
            /\ ~LoginFailed(j)
            /\ batch.results[j].fetches = 0
            /\ batch.results[j].writes = 0

\* ------------------------------------------- claims on the concurrency limit
ListEntryPoints ==
    {"update_stock_list", "update_bonds_list", "update_reits_list", "download_stock_list"}

\* the finished tasks are those submitted first, in submission order
InSubmissionOrder ==
    \A i \in 1..Len(batch.results) :
        <<batch.results[i].code, batch.results[i].k_type>> = batch.submitted[i]

C20_MirrorAgrees ==
    /\ \A p \in Paths :
          (pickles[p].exists /\ files[p].exists) =>
              load_kline_data_pickle(pickles, p[3], p[2], p[1])
                  = load_kline_data_csv(files, p[3], p[2], p[1])
    /\ last.op = "get_kl_data" => last.ret = Some(load_file(last.pre))

\* C21: pickle round trip: a non-empty series S loaded from CSV, saved with the
\* utility's pickle save operation as the test and append_kline_data call it
\* (save_kline_data_pickle) and loaded back with load_kline_data_pickle for the
\* same key, comes back non-empty with the same number of bars as S.
C21_PickleRoundTrip ==
    last.op = "pickle_round_trip" =>
        /\ last.ret # None
        /\ last.ret[1] # <<>>
        /\ Len(last.ret[1]) = Len(last.arg)

\* ------------------------------------------- claims on the prefix resolution
\* C22 as stated: a code that already carries an sh/sz prefix is returned
\* unchanged and without any lookup; for a bare code 'sh' is tried first and 'sz'
\* second, the first candidate whose lookup succeeds with a non-empty response is
\* returned (never 'sz' when 'sh' succeeded), and the original input is returned
\* when neither candidate succeeds or the provider cannot be reached.
C22_PrefixResolution ==
    last.op = "normalize_stock_code" =>
        LET code == last.arg
            ret == last.ret[1]
        IN  IF startswith(code, "sh.") \/ startswith(code, "sz.")
            THEN ret = code /\ last.saved = <<>>
            ELSE /\ last.saved \in {<<>>, <<"sh." \o code>>,
                                    <<"sh." \o code, "sz." \o code>>}
                 /\ ret \in {code, "sh." \o code, "sz." \o code}
                 /\ last.rep /\ last.saved # <<>> => ret = "sh." \o code
                 /\ ret = "sz." \o code => ~last.rep

\* C22 (amended): the stock resolution works on the input with surrounding blanks
\* stripped: a stripped code starting with 'sh.' or 'sz.' is returned as it is and
\* without any lookup; otherwise 'sh.' + code is looked up first and 'sz.' + code
\* second, the first one found is returned (never 'sz.' when 'sh.' was found), and
\* the stripped code is returned when neither is found or the login fails (then
\* without any lookup). The bond resolution asks the candidates of the stripped,
\* lower-cased code in order (the code itself when it starts with sh/sz, else
\* 'sh' + code then 'sz' + code), stops at the first that answers with rows, and
\* yields no symbol when none does.
C22_PrefixResolutionStripped ==
    /\ last.op = "normalize_stock_code" =>
        LET code == strip(last.arg)
            ret == last.ret[1]
        IN  IF startswith(code, "sh.") \/ startswith(code, "sz.")
            THEN ret = code /\ last.saved = <<>>
            ELSE /\ last.saved \in {<<>>, <<"sh." \o code>>,
                                    <<"sh." \o code, "sz." \o code>>}
                 /\ ret \in {code, "sh." \o code, "sz." \o code}
                 /\ last.saved = <<>> => ret = code /\ ~is_connected
                 /\ last.rep /\ last.saved # <<>> =>
                        ret = "sh." \o code /\ last.saved = <<"sh." \o code>>
                 /\ ret = "sz." \o code =>
                        ~last.rep /\ last.saved = <<"sh." \o code, "sz." \o code>>
                 /\ ret = "sh." \o code => last.rep
    /\ last.op = "fetch_df_by_candidates" =>
        LET c == lower(strip(last.arg))
            cands == IF startswith(c, "sh") \/ startswith(c, "sz") THEN <<c>>
                     ELSE <<"sh" \o c, "sz" \o c>>
        IN  /\ last.saved \in {SubSeq(cands, 1, n) : n \in 1..Len(cands)}
            /\ last.rep => last.ret = Some(cands[1]) /\ last.saved = <<cands[1]>>
            /\ last.ret # None => last.ret[1] = last.saved[Len(last.saved)]
            /\ last.ret = None => last.saved = cands /\ ~last.rep

\* C22 witness: a bare code with blanks around it was resolved to Shenzhen after
\* the Shanghai lookup found nothing
C22_Witness ==
    /\ last.op = "normalize_stock_code"
    /\ last.arg = " 6 "
    /\ last.ret = Some("sz.6")
    /\ last.saved = <<"sh.6", "sz.6">>

\* ------------------------------------------- claims on the stored series
\* C23: every stored series has unique timestamps and is ordered strictly
\* ascending by timestamp after any sequence of operations that write it (full
\* download save, force-full save, append_merge), whatever order and duplicates
\* the provider returned.
C23_StoredSeriesAscending ==
    (TaskDone /\ task.writes > 0) => StrictlyIncreasing(StoredOfTask(files))

\* C23, the append_merge part alone: an incremental bond update that wrote leaves
\* a strictly ascending series, whatever the stored series and the answer were
C23_AppendMergeAscending ==
    (TaskDone /\ task.writes > 0 /\ task.obj = "AkshareBondUpdater") =>
        StrictlyIncreasing(StoredOfTask(files))

\* C24: after any sequence of save and append_merge operations on a key,
\* get_latest_data_time returns none if and only if the series is absent or holds
\* no bar, and otherwise the timestamp of the last bar of the stored series; it
\* never modifies the stored series.
C24_LatestIsLastBar ==
    last.op = "latest" =>
        LET S == load_file(last.pre)
        IN  /\ last.ret = None <=> (~last.pre.exists \/ S = <<>>)
            /\ S # <<>> => last.ret = Some(S[Len(S)].time)
            /\ files[last.path] = last.pre

\* C24 witness: the lookup ran on a stored series of two bars whose last bar is
\* the earlier one, and answered with that bar's time
C24_Witness ==
    /\ last.op = "latest"
    /\ Len(load_file(last.pre)) = 2
    /\ CTimeLT(load_file(last.pre)[2].time, load_file(last.pre)[1].time)
    /\ last.ret = Some(load_file(last.pre)[2].time)

\* ------------------------------------- claims on the outcome of an update
\* C25: for every incremental update task (stock, bond or REIT) whose fetch
\* returned a non-empty list of new bars, the merge is written to the store if and
\* only if the task returns success with success_count and updated_count each
\* incremented by one; a task that is reported as failed (returns False,
\* failed_count + 1) has left the stored series unchanged.
C25_WrittenIffSuccess ==
    (TaskDone /\ task.obj \in Updaters /\ ~task.force /\ task.resp = "rows") =>
        /\ task.writes > 0 <=>
              /\ task.ret
              /\ stats.success_count = task.pre.success_count + 1
              /\ stats.updated_count = task.pre.updated_count + 1
        /\ (~task.ret /\ stats.failed_count = task.pre.failed_count + 1) =>
              (task.writes = 0 /\ ~task.changed)

\* ------------------------------------------------- claims on the CSV load
\* the data rows of a file: its lines after the header
DataRows(file) == IF file.exists /\ file.lines # <<>> THEN Tail(file.lines) ELSE <<>>

\* a data row with at least 8 fields whose fields parse
WellFormed(row) == Len(row) >= 8 /\ "text" \notin DOMAIN row[1]

\* a data row that is not empty and not well-formed
Malformed(row) == row # <<>> /\ ~WellFormed(row)

\* C26: load_kline_data_csv returns the empty series when the file is absent, and
\* otherwise returns, in file order, exactly the bars of the well-formed data rows
\* after the header: a malformed row (fewer than 8 fields, or a field that cannot
\* be parsed) is skipped with a logged warning, does not abort the load and does
\* not cause any other row to be dropped.
C26_LoadSkipsMalformed ==
    last.op = "load_csv" =>
        LET good == SelectSeq(DataRows(last.pre), WellFormed)
            bad == SelectSeq(DataRows(last.pre), Malformed)
        IN  /\ ~last.pre.exists => last.ret = <<>>
            /\ last.ret = [i \in 1..Len(good) |-> ParseRow(good[i])]
            /\ last.saved = Len(bad)

\* C26 without the warnings: the list returned holds, in file order, exactly the
\* bars of the well-formed data rows
C26_LoadReturnsWellFormed ==
    last.op = "load_csv" =>
        LET good == SelectSeq(DataRows(last.pre), WellFormed)
        IN  /\ ~last.pre.exists => last.ret = <<>>
            /\ last.ret = [i \in 1..Len(good) |-> ParseRow(good[i])]

\* ------------------------------------- claims on the skip of a download
\* a download task without force_update starts while its target file exists and
\* is not empty
StartsOnExisting ==
    /\ task.pc = "idle"
    /\ task'.obj \in Downloaders
    /\ ~task'.force
    /\ LET p == StoragePath(task'.obj, task'.code, task'.k_type, task'.autype)
       IN  already_downloaded(files, p[3], p[2], p[1])

\* C27: a download task without force_update whose target CSV already exists and
\* is non-empty makes no provider fetch, leaves the file unchanged, increments
\* skipped_count by one and returns success; a stored series is therefore changed
\* only by a task that wrote (a forced or full download, an update).
C27_ExistingTargetIsSkipped ==
    /\ [][StartsOnExisting =>
            /\ task'.pc = "done"
            /\ task'.ret
            /\ task'.fetches = 0
            /\ files' = files
            /\ stats' = Skipped(stats)]_vars
    /\ [][files' # files => task'.writes = task.writes + 1]_vars

\* C27 for the targets of the day period, the only period the REIT and bond
\* downloaders fetch
C27_ExistingDayTargetIsSkipped ==
    [][(StartsOnExisting /\ task'.k_type = "K_DAY") =>
            /\ task'.pc = "done"
            /\ task'.ret
            /\ task'.fetches = 0
            /\ files' = files
            /\ stats' = Skipped(stats)]_vars

\* ------------------------------------------- claims on the directory listing
\* the codes of a sequence
CodesOf(seq) == {seq[i] : i \in 1..Len(seq)}

\* C28: update_all_downloaded_bonds attempts the bond update for every downloaded
\* 6-digit numeric code stored under adjustment NONE, which includes the bond
\* codes that start with '01' as well as the 6-digit codes classified as REITs.
C28_AllSixDigitCodes ==
    last.op = "update_all_downloaded_bonds" =>
        CodesOf(last.ret) = {c \in csv_codes(files, "NONE") : isdigit(c) /\ Len(c) = 6}

\* C28 as the code has it: the bond update is attempted for the downloaded 6-digit
\* numeric codes under NONE that do not start with '01'
C28_SixDigitCodesNot01 ==
    last.op = "update_all_downloaded_bonds" =>
        CodesOf(last.ret) = {c \in csv_codes(files, "NONE") :
                                isdigit(c) /\ Len(c) = 6 /\ SubSeq(c, 1, 2) # "01"}

\* ------------------------------------------- claims on what a merge keeps
\* no two bars of S carry the same timestamp
UniqueTimes(S) == \A i, j \in 1..Len(S) : S[i].time = S[j].time => i = j

\* C29: an incremental update never removes a stored bar: for every stored series
\* S and new bars N, the set of timestamps stored after append_merge(key, N) is a
\* superset of the set stored in S, and every bar of S whose timestamp does not
\* occur in N keeps its field values.
C29_AppendKeepsStoredBars ==
    last.op = "append" =>
        LET S == load_file(last.pre)
            N == last.arg
            R == load_file(files[last.path])
        IN  /\ Times(S) \subseteq Times(R)
            /\ \A i \in 1..Len(S) :
                  S[i].time \notin Times(N) => \E j \in 1..Len(R) : R[j] = S[i]

\* C29 for a stored series with unique timestamps
C29_AppendKeepsUniqueBars ==
    (last.op = "append" /\ UniqueTimes(load_file(last.pre))) =>
        LET S == load_file(last.pre)
            N == last.arg
            R == load_file(files[last.path])
        IN  /\ Times(S) \subseteq Times(R)
            /\ \A i \in 1..Len(S) :
                  S[i].time \notin Times(N) => \E j \in 1..Len(R) : R[j] = S[i]

\* ------------------------------------------- claims on the count of tasks
\* C30: after a batch run with max_workers = 1 returns, success_count +
\* failed_count + skipped_count equals the number of tasks submitted (codes x
\* periods): every task is counted in exactly one of the three outcomes. This
\* holds for the update batches and for the download batches.
C30_EveryTaskCountedOnce ==
    (batch.pc = "returned" /\ batch.submitted # <<>>) =>
        /\ stats.success_count + stats.failed_count + stats.skipped_count
              = Len(batch.submitted)
        /\ Len(batch.results) = Len(batch.submitted)
        /\ \A i \in 1..Len(batch.results) : batch.results[i].counted # "none"

\* C30 for the bond and REIT update batches
C30_BondReitUpdatesCounted ==
    (/\ batch.pc = "returned" /\ batch.submitted # <<>>
     /\ batch.obj \in {"AkshareBondUpdater", "AkshareReitsUpdater"}) =>
        /\ stats.success_count + stats.failed_count + stats.skipped_count
              = Len(batch.submitted)
        /\ \A i \in 1..Len(batch.results) : batch.results[i].counted # "none"
====
